---- MODULE Spec2Model ----
(***************************************************************************)
(* Model of the read API of medical-telegram-warehouse: the cache-aside    *)
(* DataService (api/services/data_service.py), the FastAPI routes that     *)
(* call it (api/routes/*.py) and the external collaborators they use (the  *)
(* relational warehouse and the optional Redis cache).                     *)
(*                                                                         *)
(* Strings are sequences of tokens, so that f-string cache keys are real   *)
(* concatenations and substring search is a real search.  Python values    *)
(* are records [kind, cls, body]; JSON documents are records [j, cls,      *)
(* body]; json.dumps(default=str) and json.loads convert between them.     *)
(***************************************************************************)
EXTENDS Integers, Sequences, FiniteSets, TLC

VARIABLES
    db,               \* the warehouse tables the API reads (loaded by upstream ETL)
    redisConfigured,  \* whether get_redis() hands the service a client
    workload,         \* the router this run's clients call
    cache,            \* the Redis keyspace: key -> [payload, ttl, age, by]
    resp,             \* the last completed request and what it did
    environ,          \* os.environ: ENVIRONMENT and API_KEYS, each unset or a string
    inflight,         \* the requests on their way through the app, step by step
    origin            \* history: for a cache key, the warehouse read its entry is from

vars == <<db, redisConfigured, workload, cache, resp, environ, inflight, origin>>

(***************************************************************************)
(* Bounds of the model                                                     *)
(***************************************************************************)
TickSeconds == 150   \* the clock advances in steps of this many seconds
MaxKeys == 2         \* the Redis keyspace holds at most this many entries
MaxRequests == 2     \* requests in flight at a time
MaxLoads == 2        \* upstream loads into the warehouse during a run
Today == 50          \* CURRENT_DATE as a day number

(***************************************************************************)
(* Strings                                                                 *)
(***************************************************************************)
Colon == <<":">>
NoneStr == <<"None">>

Digit(d) == <<"0", "1", "2", "3", "4", "5", "6", "7", "8", "9">>[d + 1]

RECURSIVE IntToStr(_)
\* str(n) / f"{n}" for a non-negative int
IntToStr(n) == IF n < 10 THEN <<Digit(n)>> ELSE IntToStr(n \div 10) \o <<Digit(n % 10)>>

\* needle in haystack (Python `in` on str; SQL LIKE '%needle%')
\* a sequence given member by member, as the tuple of its members
AsTuple(s) == s \o <<>>

\* F(e), with e evaluated once however often F refers to it
With(e, F(_)) == CHOOSE y \in {F(v) : v \in {e}} : TRUE

LowerToken(t) ==
    CASE t = "Paracetamol" -> "paracetamol"
      [] t = "LONG" -> "long"
      [] t = "X" -> "x"
      [] t = "CHEMED" -> "chemed"
      [] OTHER -> t

\* str.lower(); ILIKE compares this way
Lower(txt) == AsTuple([i \in 1..Len(txt) |-> LowerToken(txt[i])])

Contains(hay, needle) ==
    \E i \in 0..(Len(hay) - Len(needle)) :
        \A j \in 1..Len(needle) : hay[i + j] = needle[j]

RECURSIVE LikeEnds(_, _, _)
\* the places in txt at which a match of the first k pattern items, begun at
\* the start of txt, can end: % stands for any run of characters, _ for any
\* one character, anything else for itself
LikeEnds(txt, pattern, k) ==
    IF k = 0 THEN {0}
    ELSE With(LikeEnds(txt, pattern, k - 1), LAMBDA ends :
            CASE pattern[k] = "%" -> {j \in 0..Len(txt) : \E i \in ends : i <= j}
              [] pattern[k] = "_" -> {i + 1 : i \in {e \in ends : e < Len(txt)}}
              [] OTHER -> {i + 1 : i \in {e \in ends : e < Len(txt) /\ txt[e + 1] = pattern[k]}})

\* txt LIKE pattern
Like(txt, pattern) == Len(txt) \in LikeEnds(txt, pattern, Len(pattern))

\* column.ilike(pattern)
ILike(txt, pattern) == Like(Lower(txt), Lower(pattern))

(***************************************************************************)
(* Python values and JSON documents                                        *)
(***************************************************************************)
PyNone == [kind |-> "None", cls |-> "", body |-> <<>>]
PyList(items) == [kind |-> "list", cls |-> "", body |-> items]
PyModel(c, fields) == [kind |-> "model", cls |-> c, body |-> <<fields>>]
PyBool(b) == [kind |-> "bool", cls |-> "", body |-> <<b>>]

\* bool(v): the truth value Python's `if v:` / `if not v:` uses
Truthy(v) ==
    CASE v.kind = "None" -> FALSE
      [] v.kind = "list" -> v.body # <<>>
      [] v.kind = "str" -> v.body # <<>>
      [] v.kind = "bool" -> v.body[1]
      [] OTHER -> TRUE

JNull == [j |-> "null", cls |-> "", body |-> <<>>]

\* default=str on one object json cannot serialize: the JSON string str(obj)
DumpsDefaultStr(v) == [j |-> "string", cls |-> v.cls, body |-> v.body]

RECURSIVE Dumps(_)
\* json.dumps(data, default=str)
Dumps(v) ==
    CASE v.kind = "None" -> JNull
      [] v.kind = "list" -> [j |-> "array", cls |-> "",
                             body |-> [i \in 1..Len(v.body) |-> Dumps(v.body[i])]]
      [] v.kind = "str" -> [j |-> "string", cls |-> v.cls, body |-> v.body]
      [] v.kind = "bool" -> [j |-> "bool", cls |-> "", body |-> v.body]
      [] OTHER -> DumpsDefaultStr(v)

RECURSIVE Loads(_)
\* json.loads(text) of a well-formed document
Loads(d) ==
    CASE d.j = "null" -> PyNone
      [] d.j = "array" -> PyList([i \in 1..Len(d.body) |-> Loads(d.body[i])])
      [] d.j = "bool" -> PyBool(d.body[1])
      [] OTHER -> [kind |-> "str", cls |-> d.cls, body |-> d.body]

\* what Redis stores under a key: text that is a JSON document, or is not
JsonText(d) == [valid |-> TRUE, doc |-> d]
GarbageText == [valid |-> FALSE, doc |-> JNull]

(***************************************************************************)
(* The Redis keyspace                                                      *)
(***************************************************************************)
\* an entry is held until its age reaches its ttl; Redis then removes it
Live(c, key) == key \in DOMAIN c /\ c[key].age < c[key].ttl

\* GET key: <<text>> when the key holds an unexpired entry, <<>> (nil) otherwise
RedisGet(c, key) == IF Live(c, key) THEN <<c[key].payload>> ELSE <<>>

\* SETEX key ttl text
RedisSetex(c, key, ttl, text, who) ==
    [k \in (DOMAIN c) \cup {key} |->
        IF k = key THEN [payload |-> text, ttl |-> ttl, age |-> 0, by |-> who]
        ELSE c[k]]

\* the keyspace after seconds more have passed
RedisAfter(c, seconds) ==
    LET aged == [k \in DOMAIN c |-> [c[k] EXCEPT !.age = @ + seconds]]
    IN [k \in {x \in DOMAIN aged : aged[x].age < aged[x].ttl} |-> aged[k]]

\* DEL key (maxmemory eviction, or an operator)
RedisDel(c, key) == [k \in (DOMAIN c) \ {key} |-> c[k]]

\* no entry, no read behind it
NoOrigin == [k \in {} |-> [version |-> 0, since |-> 0]]

EmptyCache == [k \in {} |-> [payload |-> GarbageText, ttl |-> 0, age |-> 0, by |-> ""]]

(***************************************************************************)
(* DataService: cache-aside layer                                          *)
(***************************************************************************)
cache_ttl == 300

\* an exception on its way up, where a value would have been
PyExc == [kind |-> "exception", cls |-> "", body |-> <<>>]

\* the try block of get_cached: the value it returns, PyNone when it falls
\* through to the return after the handler, PyExc when it raises
\* g is the outcome of the backend call: "ok" or "error" (refused, timed out)
get_cached_try(c, key, g) ==
    IF g = "error" THEN PyExc
    ELSE LET data == RedisGet(c, key) IN
         IF data = <<>> THEN PyNone
         ELSE IF ~data[1].valid THEN PyExc      \* json.loads raises
         ELSE Loads(data[1].doc)

\* get_cached without its except clause
get_cached_unguarded(c, cfg, key, g) ==
    IF ~cfg THEN PyNone ELSE get_cached_try(c, key, g)

\* DataService.get_cached
get_cached(c, cfg, key, g) ==
    IF ~cfg THEN PyNone
    ELSE LET tried == get_cached_try(c, key, g) IN
         IF tried = PyExc THEN PyNone           \* except Exception: log
         ELSE tried

\* set_cached whose failed write has landed all the same
set_cached_landed(c, cfg, key, data, s) ==
    IF ~cfg THEN [ok |-> FALSE, raised |-> FALSE, cache |-> c]
    ELSE [ok |-> s = "ok", raised |-> FALSE,
          cache |-> RedisSetex(c, key, cache_ttl, JsonText(Dumps(data)), "set_cached")]

\* DataService.set_cached: [ok |-> the bool returned, raised |-> an exception
\* left it, cache |-> the keyspace after]; s is the outcome of the backend call
set_cached(c, cfg, key, data, s) ==
    IF ~cfg THEN [ok |-> FALSE, raised |-> FALSE, cache |-> c]
    ELSE IF s = "error"
         THEN [ok |-> FALSE, raised |-> FALSE, cache |-> c]    \* except Exception: log
    ELSE [ok |-> TRUE, raised |-> FALSE,
          cache |-> RedisSetex(c, key, cache_ttl, JsonText(Dumps(data)), "set_cached")]

(***************************************************************************)
(* The warehouse (marts.dim_channels, marts.fct_messages joined to         *)
(* marts.dim_dates, marts.fct_image_detections)                            *)
(***************************************************************************)
ChannelRow(k, name, type, posts, views, imgpct, status) ==
    [channel_key |-> k, channel_name |-> name, channel_type |-> type,
     first_post_date |-> 1, last_post_date |-> Today - 1,
     total_posts |-> posts, avg_views |-> views,
     image_percentage |-> imgpct, activity_status |-> status]

MessageRow(k, id, ck, day, txt, views, fwd, img) ==
    [message_key |-> k, message_id |-> id, channel_key |-> ck, full_date |-> day,
     message_text |-> txt, view_count |-> views, forward_count |-> fwd,
     has_image_flag |-> img, message_length |-> Len(txt),
     engagement_score |-> views + fwd, loaded_at |-> day]

DetectionRow(k, id, ck, day, objs, cat) ==
    [detection_key |-> k, message_id |-> id, channel_key |-> ck, full_date |-> day,
     detected_objects |-> objs, detection_count |-> Len(objs), image_category |-> cat]

SmallWarehouse ==
    [channels |-> <<
        ChannelRow("c1", <<"chemed">>, "Medical", 2, 150, 50, "Active"),
        ChannelRow("c2", <<"lobelia">>, "Cosmetics", 3, 40, 0, "Active"),
        ChannelRow("c3", <<"tikvah">>, "Pharmaceutical", 0, 0, 0, "Inactive") >>,
     messages |-> <<
        MessageRow("m1", 1, "c1", Today - 2, <<"Paracetamol", " ", "500mg">>, 100, 4, TRUE),
        MessageRow("m2", 2, "c1", Today - 3, <<"x", ":", "y", " ", "cream">>, 200, 0, FALSE),
        MessageRow("m3", 1, "c2", Today - 3, <<"panadol", " ", "pain", " ", "relief">>, 0, 0, FALSE),
        MessageRow("m4", 3, "c2", Today - 10, <<"x", " ", "lotion">>, 30, 1, FALSE),
        MessageRow("m5", 4, "c2", Today - 40, <<"mask">>, 300, 2, FALSE) >>,
     detections |-> <<
        DetectionRow("d1", 1, "c1", Today, <<"person", "bottle">>, "promotional") >>]

Warehouses == {SmallWarehouse}

\* a warehouse with records on CURRENT_DATE and the day before it, and with
\* several detections on one date
TrendWarehouse ==
    [SmallWarehouse EXCEPT
        !.messages = @ \o <<
            MessageRow("m6", 5, "c3", Today, <<"mask">>, 0, 0, TRUE),
            MessageRow("m7", 6, "c3", Today - 1, <<"cream">>, 20, 3, TRUE),
            MessageRow("m8", 7, "c1", Today - 1, <<"lotion">>, 5, 0, FALSE) >>,
        !.detections = @ \o <<
            DetectionRow("d2", 5, "c3", Today, <<"bottle">>, "product_display"),
            DetectionRow("d3", 6, "c3", Today - 1, <<"person">>, "lifestyle"),
            DetectionRow("d4", 2, "c1", Today - 3, <<>>, "other") >>]

\* the warehouse with the nullable columns view_count and forward_count given
\* as nullable numbers
Nullable(d) ==
    [d EXCEPT !.messages = AsTuple([i \in 1..Len(@) |->
        [@[i] EXCEPT !.view_count = <<@>>, !.forward_count = <<@>>]])]

\* the same with no view_count on the messages of one channel
WithoutViews(d, ck) ==
    [d EXCEPT !.messages = AsTuple([i \in 1..Len(@) |->
        IF @[i].channel_key = ck THEN [@[i] EXCEPT !.view_count = <<>>] ELSE @[i]])]

NullableWarehouses ==
    {Nullable(SmallWarehouse), Nullable(TrendWarehouse),
     WithoutViews(Nullable(SmallWarehouse), "c2"),
     WithoutViews(Nullable(TrendWarehouse), "c3")}

\* warehouses for the search of long texts: one channel, one message whose
\* text has n characters
LongText(n) == AsTuple([i \in 1..n |-> IF i = 1 THEN "long" ELSE "."])

LongTextWarehouse(n) ==
    [channels |-> <<ChannelRow("c1", <<"chemed">>, "Medical", 1, 10, 0, "Active")>>,
     messages |-> <<MessageRow("m1", 1, "c1", Today - 1, LongText(n), 10, 0, FALSE)>>,
     detections |-> <<>>]

\* warehouses for the product scan: six channels, and message rows drawn in
\* every order from a pool
ScanChannels == <<
    ChannelRow("k1", <<"A">>, "Medical", 2, 200, 0, "Active"),
    ChannelRow("k2", <<"B">>, "Medical", 2, 105, 0, "Active"),
    ChannelRow("k3", <<"C">>, "Cosmetics", 1, 50, 0, "Active"),
    ChannelRow("k4", <<"D">>, "Medical", 1, 0, 0, "Active"),
    ChannelRow("k5", <<"E">>, "Medical", 1, 0, 0, "Active"),
    ChannelRow("k6", <<"F">>, "Medical", 1, 0, 0, "Active") >>

ScanPool == <<
    [channel_key |-> "k1", message_text |-> <<"Paracetamol">>, view_count |-> 100],
    [channel_key |-> "k2", message_text |-> <<"panadol", " ", "paracetamol">>,
     view_count |-> 200],
    [channel_key |-> "k3", message_text |-> <<"cream">>, view_count |-> 50],
    [channel_key |-> "k2", message_text |-> <<"amoxicillin">>, view_count |-> 10] >>

MaxScanned == 2      \* the drawn row sets have at most this many rows

ScanWarehouse(picks) ==
    [channels |-> ScanChannels,
     messages |-> AsTuple([i \in 1..Len(picks) |->
        MessageRow(<<"s1", "s2", "s3", "s4", "s5", "s6", "s7">>[i], i, picks[i].channel_key,
                   Today - 1, picks[i].message_text, picks[i].view_count, 0, FALSE)]),
     detections |-> <<>>]

\* one message on the product from each of the six channels
SixChannels ==
    [i \in 1..6 |-> [channel_key |-> ScanChannels[i].channel_key,
                     message_text |-> <<"panadol">>, view_count |-> 10 * i]]

ScanPicks == UNION {[1..m -> 1..Len(ScanPool)] : m \in 1..MaxScanned}

ScanInputs ==
    {ScanWarehouse([i \in DOMAIN f |-> ScanPool[f[i]]]) : f \in ScanPicks}
        \cup {ScanWarehouse(<<ScanPool[1], ScanPool[2],
                              [channel_key |-> "k1", message_text |-> <<"paracetamol">>,
                               view_count |-> 300]>>),
              ScanWarehouse(SixChannels)}

\* the rows of a table that satisfy a predicate, in table order
RECURSIVE SelectSeq2(_, _)
SelectSeq2(rows, keep) ==
    IF rows = <<>> THEN <<>>
    ELSE (IF keep[1] THEN <<rows[1]>> ELSE <<>>)
         \o SelectSeq2(Tail(rows), Tail(keep))

Where(rows, P(_)) ==
    With(rows, LAMBDA rs :
        With(AsTuple([i \in 1..Len(rs) |-> P(rs[i])]), LAMBDA keep : SelectSeq2(rs, keep)))

\* rows sorted descending by their keys, rows with equal keys in table order
SortDesc(rows, keys) ==
    With(<<rows, keys>>, LAMBDA rk :
        LET n == Len(rk[1])
            \* the rows that come before row j
            Before(j) == {k \in 1..n : \/ rk[2][k] > rk[2][j]
                                       \/ (rk[2][k] = rk[2][j] /\ k < j)}
        IN AsTuple([i \in 1..n |->
                rk[1][CHOOSE j \in 1..n : Cardinality(Before(j)) = i - 1]]))

\* ORDER BY F DESC
OrderByDesc(rows, F(_)) ==
    With(rows, LAMBDA rs : SortDesc(rs, AsTuple([i \in 1..Len(rs) |-> F(rs[i])])))

Limit(rows, n) == IF Len(rows) <= n THEN rows ELSE SubSeq(rows, 1, n)

(***************************************************************************)
(* Outcomes of the external calls of one request: env.get[i], env.set[i]   *)
(* and env.db[i] are "ok" or "error" for the i-th nesting level of the     *)
(* service call (1 = the operation itself, 2 = the operation it calls).    *)
(***************************************************************************)
Outcome == {"ok", "error"}
Envs1 == [get : [1..1 -> Outcome], set : [1..1 -> Outcome], db : [1..1 -> Outcome]]
Envs2 == [get : [1..2 -> Outcome], set : [1..2 -> Outcome], db : [1..2 -> Outcome]]
Inner(env) == [get |-> Tail(env.get), set |-> Tail(env.set), db |-> Tail(env.db)]

\* outcomes of calls that are never made are left "ok"
AllOk(outcomes) == \A i \in 1..Len(outcomes) : outcomes[i] = "ok"
Canonical(c, cfg, key, env, svc) ==
    /\ ~cfg => AllOk(env.get) /\ AllOk(env.set)
    /\ Truthy(get_cached(c, cfg, key, env.get[1]))
          => AllOk(env.db) /\ AllOk(env.set) /\ AllOk(Tail(env.get))
    /\ ~svc.setTried => env.set[1] = "ok"

\* what a service call hands back to its caller
Returned(v, c, h, q) ==
    [ret |-> v, exc |-> FALSE, cache |-> c, hit |-> h, queried |-> q, setTried |-> FALSE,
     wrote |-> FALSE]
\* an operation that logs the failure and hands back an empty result
Raised_swallowed(c) ==
    [ret |-> PyList(<<>>), exc |-> FALSE, cache |-> c, hit |-> FALSE, queried |-> TRUE,
     setTried |-> FALSE, wrote |-> FALSE]
\* except Exception as e: logger.error(...); raise
Raised(c) ==
    [ret |-> PyNone, exc |-> TRUE, cache |-> c, hit |-> FALSE, queried |-> TRUE,
     setTried |-> FALSE, wrote |-> FALSE]
\* a caller that fails when set_cached has not stored the result
Computed_acknowledged(v, sc) ==
    [ret |-> IF sc.ok THEN v ELSE PyNone, exc |-> ~sc.ok, cache |-> sc.cache,
     hit |-> FALSE, queried |-> TRUE, setTried |-> TRUE, wrote |-> sc.ok]

\* the operation queried, called set_cached (sc: what that handed back, which
\* the caller does not look at) and returned v
Computed(v, sc) ==
    [ret |-> IF sc.raised THEN PyNone ELSE v, exc |-> sc.raised, cache |-> sc.cache,
     hit |-> FALSE, queried |-> TRUE, setTried |-> TRUE, wrote |-> sc.ok]

(***************************************************************************)
(* DataService: channel operations                                        *)
(***************************************************************************)
ChannelResponse(row) ==
    PyModel("ChannelResponse",
        [channel_key |-> row.channel_key, channel_name |-> row.channel_name,
         channel_type |-> row.channel_type, first_post_date |-> row.first_post_date,
         last_post_date |-> row.last_post_date, total_posts |-> row.total_posts,
         avg_views |-> row.avg_views, image_percentage |-> row.image_percentage,
         activity_status |-> row.activity_status])

ChannelKey(channel_name) == <<"channel">> \o Colon \o channel_name

\* a lookup that compares names the way ILIKE does
ChannelNamed_ilike(d, channel_name) ==
    LET IsNamed(r) == Lower(r.channel_name) = Lower(channel_name)
    IN Limit(Where(d.channels, IsNamed), 1)

\* Channel.channel_name == channel_name, .first()
ChannelNamed(d, channel_name) ==
    LET IsNamed(r) == r.channel_name = channel_name
    IN Limit(Where(d.channels, IsNamed), 1)

\* the body of get_channel_by_name behind the cache check
QueryChannelByName(c, cfg, d, channel_name, env) ==
    IF env.db[1] = "error" THEN Raised(c)
    ELSE LET channel == ChannelNamed(d, channel_name) IN
         IF channel = <<>> THEN Returned(PyNone, c, FALSE, TRUE)
         ELSE LET result == ChannelResponse(channel[1])
                  sc == set_cached(c, cfg, ChannelKey(channel_name), result, env.set[1])
              IN Computed(result, sc)

\* DataService.get_channel_by_name
get_channel_by_name(c, cfg, d, channel_name, env) ==
    LET cached == get_cached(c, cfg, ChannelKey(channel_name), env.get[1]) IN
    IF Truthy(cached) THEN Returned(cached, c, TRUE, FALSE)
    ELSE QueryChannelByName(c, cfg, d, channel_name, env)

\* DataService.get_all_channels
AllChannelsKey == <<"channels", ":", "all">>

\* db.query(Channel).order_by(desc(Channel.total_posts)).all(), as responses
AllChannelsResult(d) ==
    LET TotalPosts(r) == r.total_posts
        channels == OrderByDesc(d.channels, TotalPosts)
    IN PyList([i \in 1..Len(channels) |-> ChannelResponse(channels[i])])

QueryAllChannels(c, cfg, d, env) ==
    IF env.db[1] = "error" THEN Raised(c)
    ELSE LET result == AllChannelsResult(d)
             sc == set_cached(c, cfg, AllChannelsKey, result, env.set[1])
         IN Computed(result, sc)

get_all_channels(c, cfg, d, env) ==
    LET cached == get_cached(c, cfg, AllChannelsKey, env.get[1]) IN
    IF Truthy(cached) THEN Returned(cached, c, TRUE, FALSE)
    ELSE QueryAllChannels(c, cfg, d, env)

(***************************************************************************)
(* Numbers: SQL AVG and Python true division give non-integers; a float is *)
(* kept as a reduced fraction.                                             *)
(***************************************************************************)
RECURSIVE Gcd(_, _)
Gcd(a, b) == IF b = 0 THEN a ELSE Gcd(b, a % b)

Frac(n, d) == IF n = 0 THEN [num |-> 0, den |-> 1]
              ELSE [num |-> n \div Gcd(n, d), den |-> d \div Gcd(n, d)]

RECURSIVE SumSeq(_)
SumSeq(xs) == IF xs = <<>> THEN 0 ELSE xs[1] + SumSeq(Tail(xs))

Column(rows, F(_)) == With(rows, LAMBDA rs : AsTuple([i \in 1..Len(rs) |-> F(rs[i])]))

\* AVG(col) over a non-empty group
Avg(xs) == Frac(SumSeq(xs), Len(xs))

RECURSIVE DescendingSeq(_)
\* the members of a finite set of integers, largest first
DescendingSeq(S) ==
    IF S = {} THEN <<>>
    ELSE LET m == CHOOSE x \in S : \A y \in S : y <= x
         IN <<m>> \o DescendingSeq(S \ {m})

Reverse(xs) == AsTuple([i \in 1..Len(xs) |-> xs[Len(xs) + 1 - i]])

\* JOIN marts.dim_channels dc ON fm.channel_key = dc.channel_key: dc.channel_name
\* of a fact row (<<>> when the join finds no channel)
ChannelNameOf(d, row) ==
    LET HasKey(ch) == ch.channel_key = row.channel_key
        found == Where(d.channels, HasKey)
    IN IF found = <<>> THEN <<>> ELSE <<found[1].channel_name>>

\* dd.full_date >= CURRENT_DATE - INTERVAL ':days days'
InWindow(row, days) == row.full_date >= Today - days

(***************************************************************************)
(* DataService.get_channel_activity                                        *)
(***************************************************************************)
ChannelActivityKey(channel_name, days) ==
    <<"channel_activity">> \o Colon \o channel_name \o Colon \o IntToStr(days) \o <<"d">>

ChannelActivity(day, count, views, forwards) ==
    PyModel("ChannelActivity",
        [date |-> day, message_count |-> count, avg_views |-> views,
         avg_forwards |-> forwards])

\* the activity query: one row per date of the window on which the channel posted
ActivityRows(d, channel_name, days) ==
    LET Mine(m) == ChannelNameOf(d, m) = <<channel_name>> /\ InWindow(m, days)
        Views(m) == m.view_count
        Forwards(m) == m.forward_count
    IN With(Where(d.messages, Mine), LAMBDA mine :
       With(DescendingSeq({mine[i].full_date : i \in 1..Len(mine)}), LAMBDA dates :
        AsTuple([i \in 1..Len(dates) |->
            With(Where(mine, LAMBDA m : m.full_date = dates[i]), LAMBDA group :
                ChannelActivity(dates[i], Len(group), Avg(Column(group, Views)),
                                Avg(Column(group, Forwards))))])))

QueryChannelActivity(c, cfg, d, channel_name, days, env) ==
    LET channel == get_channel_by_name(c, cfg, d, channel_name, Inner(env)) IN
    IF channel.exc THEN Raised(channel.cache)
    ELSE IF ~Truthy(channel.ret) THEN Returned(PyList(<<>>), channel.cache, FALSE, TRUE)
    ELSE IF env.db[1] = "error" THEN [Raised(channel.cache) EXCEPT !.wrote = channel.wrote]
    ELSE LET activity == PyList(ActivityRows(d, channel_name, days))
             sc == set_cached(channel.cache, cfg, ChannelActivityKey(channel_name, days),
                              activity, env.set[1])
         IN [Computed(activity, sc) EXCEPT !.wrote = @ \/ channel.wrote]

get_channel_activity(c, cfg, d, channel_name, days, env) ==
    LET cached == get_cached(c, cfg, ChannelActivityKey(channel_name, days), env.get[1]) IN
    IF Truthy(cached) THEN Returned(cached, c, TRUE, FALSE)
    ELSE QueryChannelActivity(c, cfg, d, channel_name, days, env)

(***************************************************************************)
(* DataService.search_messages                                             *)
(***************************************************************************)
\* an Optional argument is <<>> (None) or <<value>>
OptStr(o) == IF o = <<>> THEN NoneStr ELSE o[1]
OptInt(o) == IF o = <<>> THEN NoneStr ELSE IntToStr(o[1])
OptDate(o) == IF o = <<>> THEN NoneStr ELSE <<"date">> \o IntToStr(o[1])
OptBool(o) == IF o = <<>> THEN NoneStr ELSE IF o[1] THEN <<"True">> ELSE <<"False">>

SearchKey(a) ==
    <<"search">> \o Colon \o a.query \o Colon \o OptStr(a.channel_name)
        \o Colon \o OptDate(a.start_date) \o Colon \o OptDate(a.end_date)
        \o Colon \o OptBool(a.has_images) \o Colon \o OptInt(a.min_views)
        \o Colon \o IntToStr(a.limit)

\* a slice without the marker after it
Truncate_bare(txt, n) == IF Len(txt) > n THEN SubSeq(txt, 1, n) ELSE txt

\* message_text[:n] + "..." if len(message_text) > n else message_text
Truncate(txt, n) == IF Len(txt) > n THEN SubSeq(txt, 1, n) \o <<"...">> ELSE txt

SearchTextLimit == 500

MessageResponse(id, txt, day, channel_name, views, forwards, img, length, score) ==
    PyModel("MessageResponse",
        [message_id |-> id, message_text |-> txt, message_date |-> day,
         channel_name |-> channel_name, view_count |-> views, forward_count |-> forwards,
         has_image |-> img, message_length |-> length, engagement_score |-> score])

\* the filtered query of search_messages, before ORDER BY and LIMIT
SearchMatches(d, a) ==
    LET Match(m) ==
            /\ ChannelNameOf(d, m) # <<>>
            /\ ILike(m.message_text, <<"%">> \o a.query \o <<"%">>)
            /\ (a.channel_name # <<>> /\ a.channel_name[1] # <<>>)
                   => ChannelNameOf(d, m) = a.channel_name
            /\ a.start_date # <<>> => m.full_date >= a.start_date[1]
            /\ a.end_date # <<>> => m.full_date <= a.end_date[1]
            /\ a.has_images # <<>> => m.has_image_flag = a.has_images[1]
            /\ (a.min_views # <<>> /\ a.min_views[1] # 0) => m.view_count >= a.min_views[1]
    IN Where(d.messages, Match)

SearchRows(d, a) ==
    LET Views(m) == m.view_count
        messages == Limit(OrderByDesc(SearchMatches(d, a), Views), a.limit)
        Name(m) == LET n == ChannelNameOf(d, m) IN IF n = <<>> THEN <<"Unknown">> ELSE n[1]
    IN [i \in 1..Len(messages) |->
            MessageResponse(messages[i].message_id,
                            Truncate(messages[i].message_text, SearchTextLimit),
                            messages[i].loaded_at, Name(messages[i]),
                            messages[i].view_count, messages[i].forward_count,
                            messages[i].has_image_flag, messages[i].message_length,
                            messages[i].engagement_score)]

QuerySearchMessages(c, cfg, d, a, env) ==
    IF env.db[1] = "error" THEN Raised(c)
    ELSE LET result == PyList(SearchRows(d, a))
             sc == set_cached(c, cfg, SearchKey(a), result, env.set[1])
         IN Computed(result, sc)

search_messages(c, cfg, d, a, env) ==
    LET cached == get_cached(c, cfg, SearchKey(a), env.get[1]) IN
    IF Truthy(cached) THEN Returned(cached, c, TRUE, FALSE)
    ELSE QuerySearchMessages(c, cfg, d, a, env)

(***************************************************************************)
(* DataService.get_top_products                                            *)
(***************************************************************************)
Product(name, keywords) == [name |-> name, keywords |-> keywords]

\* the dict literal, in its iteration order
product_keywords == <<
    Product(<<"Paracetamol">>, << <<"paracetamol">>, <<"panadol">>, <<"acetaminophen">> >>),
    Product(<<"Amoxicillin">>, << <<"amoxicillin">>, <<"amoxil">>, <<"amoxycillin">> >>),
    Product(<<"Vitamin C">>, << <<"vitamin", " ", "c">>, <<"ascorbic", " ", "acid">> >>),
    Product(<<"Antibiotics">>, << <<"antibiotic">>, <<"antibiotic", "s">>, <<"amoxicillin">>,
                                  <<"azithromycin">> >>),
    Product(<<"Pain Relief">>, << <<"pain">>, <<"relief">>, <<"analgesic">> >>),
    Product(<<"Cough Syrup">>, << <<"cough">>, <<"syrup">>, <<"expectorant">> >>),
    Product(<<"Antiseptic">>, << <<"antiseptic">>, <<"disinfectant">>, <<"dettol">> >>),
    Product(<<"Skin Cream">>, << <<"cream">>, <<"ointment">>, <<"lotion">>,
                                 <<"moisturizer">> >>),
    Product(<<"Supplements">>, << <<"supplement">>, <<"vitamin">>, <<"mineral">> >>),
    Product(<<"Medical Equipment">>, << <<"mask">>, <<"gloves">>, <<"thermometer">> >>) >>

ScanLimit == 1000
ChannelsShown == 5

TopProductsKey(limit, days) ==
    <<"top_products">> \o Colon \o IntToStr(limit) \o Colon \o IntToStr(days) \o <<"d">>

TopProduct(name, count, channels, views) ==
    PyModel("TopProduct",
        [product_name |-> name, mention_count |-> count, channels |-> channels,
         avg_views |-> views])

\* the rows the scan query returns
ScannedRows(d, days) ==
    LET Recent(m) == ChannelNameOf(d, m) # <<>> /\ InWindow(m, days)
    IN Limit(Where(d.messages, Recent), ScanLimit)

\* the inner loop over a product's keywords that counts every keyword it finds
KeywordHits_nobreak(product, row) ==
    With(Lower(row.message_text), LAMBDA message_text :
        {k \in 1..Len(product.keywords) : Contains(message_text, product.keywords[k])})

\* the inner loop over a product's keywords: the places in the keyword list at
\* which it counts the row for the product (it leaves the loop at the first)
KeywordHits(product, row) ==
    With(Lower(row.message_text), LAMBDA message_text :
        LET found == {k \in 1..Len(product.keywords) :
                         Contains(message_text, product.keywords[k])}
        IN {k \in found : \A j \in found : k <= j})

\* the inner loop counts the row for the product
Mentions(product, row) == KeywordHits(product, row) # {}

\* list(a_set): the members in the order this process's string hashing gives
HashSeeds == {"a", "b"}

ListOfSet(seed, d, names) ==
    LET InSet(ch) == ch.channel_name \in names
        tableOrder == Column(Where(d.channels, InSet), LAMBDA ch : ch.channel_name)
    IN IF seed = "a" THEN tableOrder ELSE Reverse(tableOrder)

\* product_counts, product_channels and product_views after the scan, as the
\* items of product_counts in insertion order
RECURSIVE Flatten(_)
Flatten(xss) == IF xss = <<>> THEN <<>> ELSE xss[1] \o Flatten(Tail(xss))

\* for each product of the dict, in its order, the rows the scan has counted
\* for it, a row once for each time the inner loop counted it
ProductHits(rows) ==
    AsTuple([p \in 1..Len(product_keywords) |->
        Flatten(AsTuple([i \in 1..Len(rows) |->
            AsTuple([n \in 1..Cardinality(KeywordHits(product_keywords[p], rows[i])) |->
                        rows[i]])]))])

\* for each product the place in rows of the first row that mentions it (0: none)
FirstMention(rows, hits) ==
    AsTuple([p \in 1..Len(hits) |->
        IF hits[p] = <<>> THEN 0
        ELSE CHOOSE i \in 1..Len(rows) :
                /\ rows[i] = hits[p][1]
                /\ \A j \in 1..(i - 1) : rows[j] # hits[p][1]])

ProductItems(d, days, seed) ==
    With(ScannedRows(d, days), LAMBDA rows :
    With(ProductHits(rows), LAMBDA hits :
    With(FirstMention(rows, hits), LAMBDA first :
        LET np == Len(product_keywords)
            seen == SelectSeq2(AsTuple([p \in 1..np |-> p]),
                               AsTuple([p \in 1..np |-> hits[p] # <<>>]))
        IN With(SortDesc(seen, AsTuple([i \in 1..Len(seen) |->
                                    0 - (first[seen[i]] * np + seen[i])])),
                LAMBDA inserted :
            AsTuple([i \in 1..Len(inserted) |->
                [product |-> product_keywords[inserted[i]].name,
                 count |-> Len(hits[inserted[i]]),
                 channels |-> ListOfSet(seed, d,
                                 {ChannelNameOf(d, hits[inserted[i]][j])[1] :
                                     j \in 1..Len(hits[inserted[i]])}),
                 views |-> Column(hits[inserted[i]], LAMBDA m : m.view_count)]])))))

\* the result loop without the [:5] on the channel list
TopProductRows_uncapped(d, limit, days, seed) ==
    With(ProductItems(d, days, seed), LAMBDA items :
    With(Limit(SortDesc(items, Column(items, LAMBDA it : it.count)), limit), LAMBDA top :
        AsTuple([i \in 1..Len(top) |->
            TopProduct(top[i].product, top[i].count, top[i].channels,
                       Frac(SumSeq(top[i].views), Len(top[i].views)))])))

TopProductRows(d, limit, days, seed) ==
    With(ProductItems(d, days, seed), LAMBDA items :
    With(Limit(SortDesc(items, Column(items, LAMBDA it : it.count)), limit), LAMBDA top :
        AsTuple([i \in 1..Len(top) |->
            TopProduct(top[i].product, top[i].count,
                       Limit(top[i].channels, ChannelsShown),
                       Frac(SumSeq(top[i].views), Len(top[i].views)))])))

\* the requests examined, and what the scan computes for each of them
TopLimits == {2}
TopDays == {30}
\* the limits asked of the scan warehouses
ScanLimits == {1, 2}
TopProductsOf ==
    [d \in Warehouses \cup ScanInputs, limit \in TopLimits \cup ScanLimits,
     days \in TopDays, seed \in HashSeeds |->
        TopProductRows(d, limit, days, seed)]

QueryTopProducts(c, cfg, d, limit, days, seed, env) ==
    IF env.db[1] = "error" THEN Raised(c)
    ELSE LET top_products == PyList(TopProductsOf[d, limit, days, seed])
             sc == set_cached(c, cfg, TopProductsKey(limit, days), top_products, env.set[1])
         IN Computed(top_products, sc)

get_top_products(c, cfg, d, limit, days, seed, env) ==
    LET cached == get_cached(c, cfg, TopProductsKey(limit, days), env.get[1]) IN
    IF Truthy(cached) THEN Returned(cached, c, TRUE, FALSE)
    ELSE QueryTopProducts(c, cfg, d, limit, days, seed, env)

(***************************************************************************)
(* DataService.get_visual_content_stats                                    *)
(***************************************************************************)
RECURSIVE Distinct(_)
\* the distinct members of a sequence, in order of first appearance
Distinct(xs) ==
    IF xs = <<>> THEN <<>>
    ELSE LET rest == Distinct(SubSeq(xs, 1, Len(xs) - 1))
             last == xs[Len(xs)]
         IN IF \E i \in 1..Len(rest) : rest[i] = last THEN rest ELSE Append(rest, last)

Occurrences(xs, x) == Cardinality({i \in 1..Len(xs) : xs[i] = x})

\* SELECT k, COUNT(*) ... GROUP BY k ORDER BY count DESC, as (k, count) pairs
GroupCount(xs) ==
    LET ks == Distinct(xs)
        pairs == [i \in 1..Len(ks) |-> [k |-> ks[i], v |-> Occurrences(xs, ks[i])]]
    IN SortDesc(pairs, Column(pairs, LAMBDA kv : kv.v))

VisualContentKey == <<"visual_content_stats">>
TopObjectsLimit == 10

VisualContentStats(d) ==
    LET Joined(r) == ChannelNameOf(d, r) # <<>>
        joined == Where(d.detections, Joined)
        images_by_channel == GroupCount(Column(joined, LAMBDA r : ChannelNameOf(d, r)[1]))
        images_by_category == GroupCount(Column(d.detections, LAMBDA r : r.image_category))
        top_objects == Limit(GroupCount(Flatten(Column(d.detections,
                                   LAMBDA r : r.detected_objects))), TopObjectsLimit)
        Detected(r) == r.detection_count > 0
        counts == Column(Where(d.detections, Detected), LAMBDA r : r.detection_count)
        avg_detections == IF counts = <<>> THEN Frac(0, 1) ELSE Avg(counts)
    IN PyModel("VisualContentStats",
        [total_images |-> SumSeq(Column(images_by_channel, LAMBDA kv : kv.v)),
         images_by_channel |-> images_by_channel,
         images_by_category |-> images_by_category,
         avg_detections_per_image |-> avg_detections,
         top_detected_objects |-> top_objects])

VisualContentStatsOf == [d \in Warehouses |-> VisualContentStats(d)]

QueryVisualContentStats(c, cfg, d, env) ==
    IF env.db[1] = "error" THEN Raised(c)
    ELSE LET stats == VisualContentStatsOf[d]
             sc == set_cached(c, cfg, VisualContentKey, stats, env.set[1])
         IN Computed(stats, sc)

get_visual_content_stats(c, cfg, d, env) ==
    LET cached == get_cached(c, cfg, VisualContentKey, env.get[1]) IN
    IF Truthy(cached) THEN Returned(cached, c, TRUE, FALSE)
    ELSE QueryVisualContentStats(c, cfg, d, env)

(***************************************************************************)
(* DataService.get_engagement_metrics                                      *)
(***************************************************************************)
EngagementKey(days) == <<"engagement_metrics">> \o Colon \o IntToStr(days) \o <<"d">>
TopMessagesLimit == 10
TopMessageTextLimit == 200

EngagementMetrics(d, days) ==
    LET Recent(m) == InWindow(m, days)
        recent == Where(d.messages, Recent)
        views == Column(recent, LAMBDA m : m.view_count)
        forwards == Column(recent, LAMBDA m : m.forward_count)
        RecentJoined(m) == ChannelNameOf(d, m) # <<>> /\ InWindow(m, days)
        top == Limit(OrderByDesc(Where(d.messages, RecentJoined), LAMBDA m : m.view_count),
                     TopMessagesLimit)
    IN PyModel("EngagementMetrics",
        [total_messages |-> Len(recent),
         total_views |-> SumSeq(views),
         total_forwards |-> SumSeq(forwards),
         avg_views_per_message |-> IF recent = <<>> THEN Frac(0, 1) ELSE Avg(views),
         avg_forwards_per_message |-> IF recent = <<>> THEN Frac(0, 1) ELSE Avg(forwards),
         top_performing_messages |->
            [i \in 1..Len(top) |->
                MessageResponse(top[i].message_id,
                                Truncate(top[i].message_text, TopMessageTextLimit),
                                top[i].full_date, ChannelNameOf(d, top[i])[1],
                                top[i].view_count, top[i].forward_count,
                                top[i].has_image_flag, top[i].message_length,
                                top[i].engagement_score)]])

EngagementDays == {7}
EngagementMetricsOf == [d \in Warehouses, days \in EngagementDays |-> EngagementMetrics(d, days)]

QueryEngagementMetrics(c, cfg, d, days, env) ==
    IF env.db[1] = "error" THEN Raised(c)
    ELSE LET metrics == EngagementMetricsOf[d, days]
             sc == set_cached(c, cfg, EngagementKey(days), metrics, env.set[1])
         IN Computed(metrics, sc)

get_engagement_metrics(c, cfg, d, days, env) ==
    LET cached == get_cached(c, cfg, EngagementKey(days), env.get[1]) IN
    IF Truthy(cached) THEN Returned(cached, c, TRUE, FALSE)
    ELSE QueryEngagementMetrics(c, cfg, d, days, env)

(***************************************************************************)
(* FastAPI: what a handler's outcome becomes on the wire                   *)
(***************************************************************************)
\* the handler returns v
Return(v) == [raised |-> FALSE, http |-> FALSE, status |-> 200, body |-> v]

\* raise HTTPException(status_code=code)
HTTPException(code) == [raised |-> TRUE, http |-> TRUE, status |-> code, body |-> PyNone]

\* any other exception (SQLAlchemyError, AttributeError, ValidationError, ...)
PyError == [raised |-> TRUE, http |-> FALSE, status |-> 500, body |-> PyNone]

\* try: ... except Exception as e: raise HTTPException(status_code=500, ...)
\* (HTTPException is an Exception: it is caught too)
CatchAll(out) == IF out.raised THEN HTTPException(500) ELSE out

\* try: ... except HTTPException: raise
\*           except Exception as e: raise HTTPException(status_code=500, ...)
CatchNonHttp(out) == IF out.raised /\ ~out.http THEN HTTPException(500) ELSE out

IsModel(v, c) == v.kind = "model" /\ v.cls = c
IsListOf(v, c) == v.kind = "list" /\ \A i \in 1..Len(v.body) : IsModel(v.body[i], c)

\* a handler declared with response_model=c: what it returned is validated
\* against c after it has returned, outside its try block
ResponseModel(out, c) == IF ~out.raised /\ ~IsModel(out.body, c) THEN PyError ELSE out

ResponseModelList(out, c) == IF ~out.raised /\ ~IsListOf(out.body, c) THEN PyError ELSE out

\* path/query parameter validation failed: RequestValidationError
Unprocessable == [raised |-> TRUE, http |-> TRUE, status |-> 422, body |-> PyNone]

PyDict(fields) == [kind |-> "dict", cls |-> "", body |-> <<fields>>]

\* a path parameter declared int: <<n>> when the segment is a decimal number
IdsParsed == 0..9
ParseInt(segment) ==
    IF \E n \in IdsParsed : IntToStr(n) = segment
    THEN <<CHOOSE n \in IdsParsed : IntToStr(n) = segment>>
    ELSE <<>>

(***************************************************************************)
(* routes/channels.py                                                      *)
(***************************************************************************)
\* GET /api/channels/  (svc: what DataService.get_all_channels handed back)
list_channels_body(svc, channel_type, min_posts, active_only) ==
    IF svc.exc THEN PyError
    ELSE LET channels == svc.ret.body
             filtering == \/ (channel_type # <<>> /\ channel_type[1] # "")
                          \/ (min_posts # <<>> /\ min_posts[1] # 0)
                          \/ active_only
             Keep(ch) ==
                /\ (channel_type # <<>> /\ channel_type[1] # "")
                      => ch.body[1].channel_type = channel_type[1]
                /\ (min_posts # <<>> /\ min_posts[1] # 0)
                      => ch.body[1].total_posts >= min_posts[1]
                /\ active_only => ch.body[1].activity_status = "Active"
         IN IF filtering /\ \E i \in 1..Len(channels) : channels[i].kind # "model"
            THEN PyError      \* AttributeError: a str has no such field
            ELSE Return(PyList(IF filtering /\ channels # <<>> THEN Where(channels, Keep)
                               ELSE channels))

list_channels(svc, channel_type, min_posts, active_only) ==
    ResponseModelList(CatchAll(list_channels_body(svc, channel_type, min_posts, active_only)),
                      "ChannelResponse")

\* GET /api/channels/{channel_name}
get_channel_body(svc) ==
    IF svc.exc THEN PyError
    ELSE IF ~Truthy(svc.ret) THEN HTTPException(404)
    ELSE Return(svc.ret)

get_channel(svc) == ResponseModel(CatchNonHttp(get_channel_body(svc)), "ChannelResponse")

\* an activity route that takes an empty activity for a missing channel
channel_activity_body_unchecked(svc, lookup) ==
    IF svc.exc THEN PyError
    ELSE IF ~Truthy(svc.ret) THEN HTTPException(404)
    ELSE Return(svc.ret)

\* GET /api/channels/{channel_name}/activity
\* (svc: get_channel_activity; lookup: the get_channel_by_name that follows an
\* empty activity)
channel_activity_body(svc, lookup) ==
    IF svc.exc THEN PyError
    ELSE IF ~Truthy(svc.ret) /\ lookup.exc THEN PyError
    ELSE IF ~Truthy(svc.ret) /\ ~Truthy(lookup.ret) THEN HTTPException(404)
    ELSE Return(svc.ret)

channel_activity(svc, lookup) ==
    ResponseModelList(CatchNonHttp(channel_activity_body(svc, lookup)), "ChannelActivity")

\* a / b on numbers: <<>> when it raises ZeroDivisionError
TrueDiv(a, b) == IF b = 0 THEN <<>> ELSE <<Frac(a, b)>>

\* max(b, 1)
Max1(b) == IF b > 1 THEN b ELSE 1

\* (a - b) / max(b, 1) * 100, <<>> when the division raises
PercentageDifference(a, b) ==
    LET q == TrueDiv(a - b, Max1(b))
    IN IF q = <<>> THEN <<>> ELSE <<Frac(q[1].num * 100, q[1].den)>>

\* the metrics dict of compare_channel: PyError when an attribute is missing
\* (a channel that is no record) or a division raises
ComparisonMetrics(channel_name, compare_with, channel1, channel2) ==
    IF channel1.kind # "model" \/ channel2.kind # "model"
    THEN PyError      \* AttributeError: 'str' object has no attribute 'total_posts'
    ELSE LET c1 == channel1.body[1]
             c2 == channel2.body[1]
             posts == PercentageDifference(c1.total_posts, c2.total_posts)
             views == PercentageDifference(c1.avg_views, c2.avg_views)
         IN IF posts = <<>> \/ views = <<>> THEN PyError
            ELSE Return(PyDict(
                    [channel1 |-> channel_name, channel2 |-> compare_with,
                     metrics |->
                        [total_posts |->
                            [channel1 |-> c1.total_posts, channel2 |-> c2.total_posts,
                             difference |-> c1.total_posts - c2.total_posts,
                             percentage_difference |-> posts[1]],
                         avg_views |->
                            [channel1 |-> c1.avg_views, channel2 |-> c2.avg_views,
                             difference |-> c1.avg_views - c2.avg_views,
                             percentage_difference |-> views[1]],
                         image_percentage |->
                            [channel1 |-> c1.image_percentage,
                             channel2 |-> c2.image_percentage,
                             difference |-> c1.image_percentage - c2.image_percentage]]]))

ComparisonDays == 30

\* the outcomes of the two lookups, and of the two activity calls with the
\* lookups they make, of one comparison
LookupEnv(env) == [get |-> <<env.get[1]>>, set |-> <<env.set[1]>>, db |-> <<env.db[1]>>]
ActivityEnv(env) ==
    [get |-> <<env.get[2], env.get[2]>>, set |-> <<env.set[2], env.set[2]>>,
     db |-> <<env.db[2], env.db[2]>>]

\* what a comparison hands on: its outcome, the keyspace it leaves, whether a
\* query of its failed and how many of the two channels came out of the cache
Compared(out, c, failed, hits) == [out |-> out, cache |-> c, dbFailed |-> failed, hits |-> hits]

\* a compare_channel that does not look at channel2 before it uses it
compare_channel_body_unchecked(c, cfg, d, channel_name, compare_with, env) ==
    With(get_channel_by_name(c, cfg, d, channel_name, LookupEnv(env)), LAMBDA channel1 :
    IF channel1.exc THEN Compared(PyError, channel1.cache, TRUE, 0)
    ELSE
    With(get_channel_by_name(channel1.cache, cfg, d, compare_with, LookupEnv(env)),
         LAMBDA channel2 :
    LET hits == (IF channel1.hit THEN 1 ELSE 0) + (IF channel2.hit THEN 1 ELSE 0) IN
    IF channel2.exc THEN Compared(PyError, channel2.cache, TRUE, hits)
    ELSE IF ~Truthy(channel1.ret) THEN Compared(HTTPException(404), channel2.cache, FALSE, hits)
    ELSE
    With(get_channel_activity(channel2.cache, cfg, d, channel_name, ComparisonDays,
                              ActivityEnv(env)), LAMBDA activity1 :
    IF activity1.exc THEN Compared(PyError, activity1.cache, TRUE, hits)
    ELSE
    With(get_channel_activity(activity1.cache, cfg, d, compare_with, ComparisonDays,
                              ActivityEnv(env)), LAMBDA activity2 :
    IF activity2.exc THEN Compared(PyError, activity2.cache, TRUE, hits)
    ELSE Compared(ComparisonMetrics(channel_name, compare_with, channel1.ret, channel2.ret),
                  activity2.cache, FALSE, hits)))))

\* the try block of compare_channel
compare_channel_body(c, cfg, d, channel_name, compare_with, env) ==
    With(get_channel_by_name(c, cfg, d, channel_name, LookupEnv(env)), LAMBDA channel1 :
    IF channel1.exc THEN Compared(PyError, channel1.cache, TRUE, 0)
    ELSE
    With(get_channel_by_name(channel1.cache, cfg, d, compare_with, LookupEnv(env)),
         LAMBDA channel2 :
    LET hits == (IF channel1.hit THEN 1 ELSE 0) + (IF channel2.hit THEN 1 ELSE 0) IN
    IF channel2.exc THEN Compared(PyError, channel2.cache, TRUE, hits)
    ELSE IF ~Truthy(channel1.ret) THEN Compared(HTTPException(404), channel2.cache, FALSE, hits)
    ELSE IF ~Truthy(channel2.ret) THEN Compared(HTTPException(404), channel2.cache, FALSE, hits)
    ELSE
    With(get_channel_activity(channel2.cache, cfg, d, channel_name, ComparisonDays,
                              ActivityEnv(env)), LAMBDA activity1 :
    IF activity1.exc THEN Compared(PyError, activity1.cache, TRUE, hits)
    ELSE
    With(get_channel_activity(activity1.cache, cfg, d, compare_with, ComparisonDays,
                              ActivityEnv(env)), LAMBDA activity2 :
    IF activity2.exc THEN Compared(PyError, activity2.cache, TRUE, hits)
    ELSE Compared(ComparisonMetrics(channel_name, compare_with, channel1.ret, channel2.ret),
                  activity2.cache, FALSE, hits)))))

\* GET /api/channels/{channel_name}/comparison
compare_channel(c, cfg, d, channel_name, compare_with, env) ==
    With(compare_channel_body(c, cfg, d, channel_name, compare_with, env), LAMBDA body :
        [body EXCEPT !.out = CatchNonHttp(@)])

(***************************************************************************)
(* routes/messages.py                                                      *)
(***************************************************************************)
\* GET /api/search/messages
search_route_body(svc, a) ==
    IF svc.exc THEN PyError
    ELSE IF ~IsListOf(svc.ret, "MessageResponse")
         THEN PyError      \* SearchResponse(...) fails validation
    ELSE LET n == Len(svc.ret.body) IN
         Return(
            PyModel("SearchResponse",
                [query |-> a.query, total_results |-> n, messages |-> svc.ret.body,
                 page |-> a.page,
                 total_pages |-> IF (n + a.limit - 1) \div a.limit > 1
                                 THEN (n + a.limit - 1) \div a.limit ELSE 1]))

search_route(svc, a) == ResponseModel(CatchAll(search_route_body(svc, a)), "SearchResponse")

MessageDict(d, m, extra) ==
    [message_id |-> m.message_id, message_text |-> m.message_text,
     channel_name |-> ChannelNameOf(d, m)[1], view_count |-> m.view_count,
     forward_count |-> m.forward_count, has_image |-> m.has_image_flag,
     message_length |-> m.message_length, engagement_score |-> m.engagement_score,
     message_date |-> m.full_date, extra |-> extra]

\* GET /api/search/messages/{message_id}
get_message_body(d, message_id, channel_name, dbOutcome) ==
    IF dbOutcome = "error" THEN PyError
    ELSE LET Has(m) == /\ ChannelNameOf(d, m) # <<>>
                       /\ m.message_id = message_id
                       /\ (channel_name # <<>> /\ channel_name[1] # <<>>)
                             => ChannelNameOf(d, m) = channel_name
             result == Where(d.messages, Has)
         IN IF result = <<>> THEN HTTPException(404)
            ELSE IF Len(result) > 1 /\ ~(channel_name # <<>> /\ channel_name[1] # <<>>)
                 THEN HTTPException(400)
            ELSE LET Shown(r) == /\ r.message_id = message_id
                                 /\ ChannelNameOf(d, r) = ChannelNameOf(d, result[1])
                     image == Limit(Where(d.detections, Shown), 1)
                 IN Return(PyDict(MessageDict(d, result[1],
                        IF image = <<>> THEN <<>>
                        ELSE <<[category |-> image[1].image_category,
                                detected_objects |-> image[1].detected_objects]>>)))

\* the handler with `except Exception` alone around its body
get_message_caught(d, message_id, channel_name, dbOutcome) ==
    CatchAll(get_message_body(d, message_id, channel_name, dbOutcome))

get_message(d, message_id, channel_name, dbOutcome) ==
    CatchNonHttp(get_message_body(d, message_id, channel_name, dbOutcome))

PopularTextLimit == 200

\* GET /api/search/messages/popular
get_popular_messages_body(d, timeframe, limit, dbOutcome) ==
    IF timeframe \notin {"day", "week", "month"} THEN HTTPException(400)
    ELSE LET days == CASE timeframe = "day" -> 1
                       [] timeframe = "week" -> 7
                       [] timeframe = "month" -> 30
         IN IF dbOutcome = "error" THEN PyError
            ELSE LET Recent(m) == ChannelNameOf(d, m) # <<>> /\ InWindow(m, days)
                     rows == Limit(OrderByDesc(Where(d.messages, Recent),
                                               LAMBDA m : m.view_count), limit)
                 IN Return(PyDict(
                        [timeframe |-> timeframe, days |-> days,
                         messages |-> [i \in 1..Len(rows) |->
                            [MessageDict(d, rows[i], <<timeframe>>) EXCEPT
                                !.message_text = Truncate(@, PopularTextLimit)]]]))

get_popular_messages(d, timeframe, limit, dbOutcome) ==
    CatchNonHttp(get_popular_messages_body(d, timeframe, limit, dbOutcome))

\* the messages router: its routes in the order the decorators register them;
\* a request goes to the first route whose path pattern matches
MessagesRoutes == <<
    [name |-> "search_messages", pattern |-> <<"messages">>],
    [name |-> "get_message", pattern |-> <<"messages", "{message_id}">>],
    [name |-> "get_popular_messages", pattern |-> <<"messages", "popular">>] >>

\* a path pattern matches a path: same length, each literal segment equal, a
\* {parameter} segment matching any one segment
PathMatches(pattern, path) ==
    /\ Len(pattern) = Len(path)
    /\ \A i \in 1..Len(pattern) :
          pattern[i] = "{message_id}" \/ <<pattern[i]>> = path[i]

Dispatch(routes, path) ==
    IF \E i \in 1..Len(routes) : PathMatches(routes[i].pattern, path)
    THEN routes[CHOOSE i \in 1..Len(routes) :
                    /\ PathMatches(routes[i].pattern, path)
                    /\ \A j \in 1..(i - 1) : ~PathMatches(routes[j].pattern, path)].name
    ELSE "not_found"

\* a GET on a two-segment path of the messages router, query string q
MessagesRequest(d, path, q, dbOutcome) ==
    LET route == Dispatch(MessagesRoutes, path) IN
    CASE route = "get_message" ->
            IF ParseInt(path[2]) = <<>>
            THEN [route |-> route, out |-> Unprocessable, queried |-> FALSE]
            ELSE [route |-> route, queried |-> TRUE,
                  out |-> get_message(d, ParseInt(path[2])[1], q.channel_name, dbOutcome)]
      [] route = "get_popular_messages" ->
            [route |-> route,
             queried |-> q.timeframe \in {"day", "week", "month"},
             out |-> get_popular_messages(d, q.timeframe, q.limit, dbOutcome)]
      [] OTHER -> [route |-> route, out |-> HTTPException(404), queried |-> FALSE]

(***************************************************************************)
(* routes/reports.py                                                       *)
(***************************************************************************)
\* GET /api/reports/top-products
\* TopProductsResponse.time_period is Dict[str, date]; the handler passes
\* {"days_analyzed": days, "description": f"Last {days} days"}, and the
\* description is no date: constructing the response fails validation
top_products_route_body(svc) ==
    IF svc.exc THEN PyError
    ELSE IF ~IsListOf(svc.ret, "TopProduct")
         THEN PyError      \* AttributeError: a str has no mention_count
    ELSE PyError           \* ValidationError: time_period.description is no date

top_products_route(svc) ==
    ResponseModel(CatchAll(top_products_route_body(svc)), "TopProductsResponse")

\* GET /api/reports/visual-content
visual_content_route(svc) ==
    ResponseModel(CatchAll(IF svc.exc THEN PyError ELSE Return(svc.ret)),
                  "VisualContentStats")

\* GET /api/reports/engagement
engagement_route(svc) ==
    ResponseModel(CatchAll(IF svc.exc THEN PyError ELSE Return(svc.ret)),
                  "EngagementMetrics")

\* a nullable number is <<>> (NULL, None) or <<n>>
\* SUM(col): the sum of the values that are not NULL, NULL when there is none
SqlSum(values) ==
    With(Flatten(values), LAMBDA given : IF given = <<>> THEN <<>> ELSE <<SumSeq(given)>>)

\* AVG(col): likewise
SqlAvg(values) ==
    With(Flatten(values), LAMBDA given : IF given = <<>> THEN <<>> ELSE <<Avg(given)>>)

\* `x or 0` on a nullable number
OrZero(opt) == IF opt = <<>> THEN 0 ELSE opt[1]

\* the daily-trend rows without GROUP BY: one row per matching record
TrendRows_ungrouped(d, metric, days) ==
    LET Recent(r) == InWindow(r, days)
        facts == IF metric = "images" THEN Where(d.detections, Recent)
                 ELSE Where(d.messages, Recent)
        byDate == Reverse(OrderByDesc(facts, LAMBDA r : r.full_date))
    IN [i \in 1..Len(byDate) |-> [date |-> byDate[i].full_date, value |-> 1]]

\* the rows of the daily-trend query for a metric: (date, value or 0), ascending
\* by date
TrendRows(d, metric, days) ==
    LET Recent(r) == InWindow(r, days)
        facts == IF metric = "images" THEN Where(d.detections, Recent)
                 ELSE Where(d.messages, Recent)
        dates == Reverse(DescendingSeq({facts[i].full_date : i \in 1..Len(facts)}))
        Group(day) == LET On(r) == r.full_date = day IN Where(facts, On)
        Value(day) ==
            CASE metric = "views" ->
                    OrZero(SqlSum(Column(Group(day), LAMBDA m : <<m.view_count>>)))
              [] metric = "forwards" ->
                    OrZero(SqlSum(Column(Group(day), LAMBDA m : <<m.forward_count>>)))
              [] OTHER -> Len(Group(day))
    IN [i \in 1..Len(dates) |-> [date |-> dates[i], value |-> Value(dates[i])]]

\* GET /api/reports/trends/daily
get_daily_trends_body(d, metric, days, dbOutcome) ==
    IF metric \notin {"messages", "views", "forwards", "images"}
    THEN HTTPException(400)
    ELSE IF dbOutcome = "error" THEN PyError
    ELSE Return(PyDict([metric |-> metric, days |-> days,
                        data |-> TrendRows(d, metric, days)]))

get_daily_trends(d, metric, days, dbOutcome) ==
    CatchAll(get_daily_trends_body(d, metric, days, dbOutcome))

(***************************************************************************)
(* routes/search.py                                                        *)
(***************************************************************************)
TopChannelsLimit == 5

\* the top-channels query: one row per channel with messages in the window,
\* ORDER BY total_views DESC (PostgreSQL puts NULL first), LIMIT 5
TopChannelRows(d, days) ==
    With(Where(d.messages, LAMBDA m : InWindow(m, days)), LAMBDA recent :
    With(Where(d.channels, LAMBDA ch :
            \E i \in 1..Len(recent) : recent[i].channel_key = ch.channel_key),
         LAMBDA posting :
    With(AsTuple([i \in 1..Len(posting) |->
            With(Where(recent, LAMBDA m : m.channel_key = posting[i].channel_key),
                 LAMBDA group :
                    [channel_name |-> posting[i].channel_name,
                     channel_type |-> posting[i].channel_type,
                     message_count |-> <<Len(group)>>,
                     total_views |-> SqlSum(Column(group, LAMBDA m : m.view_count))])]),
         LAMBDA rows :
            Limit(Where(rows, LAMBDA r : r.total_views = <<>>)
                    \o OrderByDesc(Where(rows, LAMBDA r : r.total_views # <<>>),
                                   LAMBDA r : r.total_views[1]),
                  TopChannelsLimit))))

\* GET /api/analytics/overview over a warehouse in nullable form; the numbers
\* of the response are nullable numbers, None being <<>>
get_analytics_overview_body(d, days, dbOutcome) ==
    IF dbOutcome = "error" THEN PyError
    ELSE
    With(Where(d.messages, LAMBDA m : InWindow(m, days)), LAMBDA recent :
    With(Where(d.detections, LAMBDA r : InWindow(r, days)), LAMBDA seen :
        Return(PyDict(
            [days |-> days,
             message_statistics |->
                [total_messages |-> <<OrZero(<<Len(recent)>>)>>,
                 active_channels |->
                    <<OrZero(<<Cardinality({recent[i].channel_key : i \in 1..Len(recent)})>>)>>,
                 total_views |->
                    <<OrZero(SqlSum(Column(recent, LAMBDA m : m.view_count)))>>,
                 total_forwards |->
                    <<OrZero(SqlSum(Column(recent, LAMBDA m : m.forward_count)))>>,
                 avg_views_per_message |->
                    <<OrZero(SqlAvg(Column(recent, LAMBDA m : m.view_count)))>>,
                 avg_forwards_per_message |->
                    <<OrZero(SqlAvg(Column(recent, LAMBDA m : m.forward_count)))>>],
             channel_statistics |->
                [total_channels |-> <<OrZero(<<Len(d.channels)>>)>>,
                 channel_types |->
                    <<OrZero(<<Cardinality({d.channels[i].channel_type :
                                              i \in 1..Len(d.channels)})>>)>>,
                 total_posts |->
                    <<OrZero(SqlSum(Column(d.channels, LAMBDA ch : <<ch.total_posts>>)))>>,
                 avg_image_percentage |->
                    <<OrZero(SqlAvg(Column(d.channels,
                                           LAMBDA ch : <<ch.image_percentage>>)))>>],
             visual_content |->
                [total_images |-> <<OrZero(<<Len(seen)>>)>>,
                 avg_detections_per_image |->
                    <<OrZero(SqlAvg(Column(seen, LAMBDA r : <<r.detection_count>>)))>>,
                 channels_with_images |->
                    <<OrZero(<<Cardinality({seen[i].channel_key : i \in 1..Len(seen)})>>)>>],
             top_channels |-> TopChannelRows(d, days)]))))

get_analytics_overview(d, days, dbOutcome) ==
    CatchAll(get_analytics_overview_body(d, days, dbOutcome))

(***************************************************************************)
(* main.py: GET /health                                                    *)
(***************************************************************************)
\* db.execute("SELECT 1"), then redis_client.ping() when get_redis() gives a
\* client
health_check_body(cfg, dbOutcome, pingOutcome) ==
    IF dbOutcome = "error" THEN PyError
    ELSE IF cfg /\ pingOutcome = "error" THEN PyError
    ELSE Return(PyDict([status |-> "healthy", database |-> "connected",
                        cache |-> IF cfg THEN "available" ELSE "not_configured"]))

\* except Exception: raise HTTPException(status_code=503, ...)
health_check(cfg, dbOutcome, pingOutcome) ==
    With(health_check_body(cfg, dbOutcome, pingOutcome), LAMBDA out :
        IF out.raised THEN HTTPException(503) ELSE out)

(***************************************************************************)
(* Requests                                                                *)
(***************************************************************************)
ChannelNames == {<<"chemed">>, <<"CHEMED">>, <<"nonexistent">>}

ActivityDays == {7}

ChannelFilters == {
    [channel_type |-> <<>>, min_posts |-> <<>>, active_only |-> FALSE],
    [channel_type |-> <<"Medical">>, min_posts |-> <<>>, active_only |-> FALSE],
    [channel_type |-> <<>>, min_posts |-> <<1>>, active_only |-> TRUE] }

SearchArgs(query, channel_name, has_images, min_views) ==
    [query |-> query, channel_name |-> channel_name, start_date |-> <<>>,
     end_date |-> <<>>, has_images |-> has_images, min_views |-> min_views,
     limit |-> 20, page |-> 1]

Searches == {
    SearchArgs(<<"X">>, <<>>, <<FALSE>>, <<100>>),
    SearchArgs(<<"x", ":", "y">>, << <<"chemed">> >>, <<>>, <<>>),
    SearchArgs(<<"x">>, << <<"y", ":", "chemed">> >>, <<>>, <<>>),
    SearchArgs(<<"zzz">>, <<>>, <<>>, <<>>),
    SearchArgs(<<"%">>, <<>>, <<>>, << 250 >>) }

\* how the backend stands for a GET of key, told from the configuration, the
\* call's outcome and the keyspace
GetCase(c, cfg, key, g) ==
    IF ~cfg THEN "unconfigured"
    ELSE IF g = "error" THEN "error"
    ELSE IF ~Live(c, key) THEN "nil"
    ELSE IF ~c[key].payload.valid THEN "garbage"
    ELSE "value"

NoResp ==
    [endpoint |-> "none", route |-> "none", args |-> <<>>, key |-> <<>>, status |-> 0,
     body |-> PyNone, ret |-> PyNone, exc |-> FALSE, hit |-> FALSE, queried |-> FALSE,
     getCase |-> "none", got |-> PyNone, stored |-> PyNone, setCase |-> "none",
     wrote |-> FALSE, cacheChanged |-> FALSE, dbOk |-> TRUE, repeat |-> FALSE,
     sameAsPrev |-> FALSE]

\* a request served through the DataService has run to completion: record it
\* and what it did to the cache
Complete(endpoint, args, key, env, svc, out) ==
    /\ Canonical(cache, redisConfigured, key, env, svc)
    /\ Cardinality(DOMAIN svc.cache) <= MaxKeys
    /\ cache' = svc.cache
    /\ resp' = [endpoint |-> endpoint, route |-> endpoint, args |-> args, key |-> key,
                status |-> out.status, body |-> out.body,
                ret |-> svc.ret, exc |-> svc.exc, hit |-> svc.hit, queried |-> svc.queried,
                getCase |-> GetCase(cache, redisConfigured, key, env.get[1]),
                got |-> get_cached(cache, redisConfigured, key, env.get[1]),
                stored |-> IF Live(cache, key) /\ cache[key].payload.valid
                           THEN Loads(cache[key].payload.doc) ELSE PyNone,
                setCase |-> IF ~svc.setTried THEN "none"
                            ELSE IF ~redisConfigured THEN "unconfigured" ELSE env.set[1],
                wrote |-> svc.wrote,
                cacheChanged |-> svc.cache # cache,
                dbOk |-> AllOk(env.db),
                repeat |-> endpoint = "get_channel" /\ resp.endpoint = endpoint
                              /\ resp.args = args /\ ~resp.exc /\ ~svc.exc,
                sameAsPrev |-> endpoint = "get_channel" /\ resp.endpoint = endpoint
                              /\ resp.args = args /\ ~resp.exc /\ ~svc.exc
                              /\ resp.ret = svc.ret]
    /\ UNCHANGED <<db, redisConfigured, workload, environ, inflight, origin>>

\* a request whose handler queries the warehouse itself has run to completion
CompleteDirect(endpoint, route, args, out, queried, dbOutcome) ==
    /\ queried \/ dbOutcome = "ok"
    /\ resp' = [NoResp EXCEPT !.endpoint = endpoint, !.route = route, !.args = args,
                              !.status = out.status, !.body = out.body,
                              !.exc = out.status = 500, !.queried = queried,
                              !.dbOk = dbOutcome = "ok"]
    /\ UNCHANGED <<db, redisConfigured, workload, cache, environ, inflight, origin>>

ListChannels ==
    /\ workload = "channels"
    /\ \E f \in ChannelFilters, env \in Envs1 :
        \E svc \in {get_all_channels(cache, redisConfigured, db, env)} :
           Complete("list_channels", f, AllChannelsKey, env, svc,
                    list_channels(svc, f.channel_type, f.min_posts, f.active_only))

GetChannel ==
    /\ workload = "channels"
    /\ \E channel_name \in ChannelNames, env \in Envs1 :
        \E svc \in {get_channel_by_name(cache, redisConfigured, db, channel_name, env)} :
           Complete("get_channel", [channel_name |-> channel_name],
                    ChannelKey(channel_name), env, svc, get_channel(svc))

CompareNames == {<<"chemed">>, <<"tikvah">>, <<"nonexistent">>}

\* the keyspaces Redis may hold of c: all of c when it fits, otherwise c less
\* the entries it has evicted to fit
Squeezed(c) ==
    IF Cardinality(DOMAIN c) <= MaxKeys THEN {c}
    ELSE {[k \in kept |-> c[k]] : kept \in {K \in SUBSET DOMAIN c : Cardinality(K) = MaxKeys}}

\* Redis answers all the calls of one comparison, or none of them; the
\* queries of the lookups and those of the activity calls fail apart
CompareEnvs == {env \in Envs2 : env.get[2] = env.get[1] /\ env.set[2] = env.set[1]}

CompareChannels ==
    /\ workload = "compare"
    /\ \E channel_name \in CompareNames, compare_with \in CompareNames, env \in CompareEnvs :
        /\ ~redisConfigured => AllOk(env.get) /\ AllOk(env.set)
        /\ (ChannelNamed(db, channel_name) = <<>> \/ ChannelNamed(db, compare_with) = <<>>)
              => env.db[2] = "ok"
        /\ \E r \in {compare_channel(cache, redisConfigured, db, channel_name, compare_with,
                                      env)} :
            /\ cache' \in Squeezed(r.cache)
            /\ resp' = [NoResp EXCEPT !.endpoint = "compare_channel",
                                      !.route = "compare_channel",
                                      !.args = [channel_name |-> channel_name,
                                                compare_with |-> compare_with],
                                      !.status = r.out.status, !.body = r.out.body,
                                      !.exc = r.out.status = 500,
                                      !.hit = r.hits > 0,
                                      !.queried = r.hits < 2,
                                      !.cacheChanged = r.cache # cache,
                                      !.dbOk = ~r.dbFailed]
            /\ UNCHANGED <<db, redisConfigured, workload, environ, inflight, origin>>

\* the names asked of the activity route by itself: a channel with messages
\* in the window, a channel without any, no channel
ActivityNames == {<<"chemed">>, <<"tikvah">>, <<"nonexistent">>}

GetChannelActivity ==
    /\ workload \in {"channels", "activity"}
    /\ \E channel_name \in (IF workload = "activity" THEN ActivityNames ELSE ChannelNames),
          days \in ActivityDays, env \in Envs2 :
        \E hit \in {Truthy(get_cached(cache, redisConfigured,
                                      ChannelActivityKey(channel_name, days), env.get[1]))},
           nested \in {get_channel_by_name(cache, redisConfigured, db, channel_name,
                                           Inner(env))} :
        \E svc \in {get_channel_activity(cache, redisConfigured, db, channel_name, days,
                                         env)} :
        \E lookup \in {get_channel_by_name(svc.cache, redisConfigured, db, channel_name,
                                           Inner(env))},
           checked \in {~svc.exc /\ ~Truthy(svc.ret)} :
           /\ ~redisConfigured => AllOk(env.get) /\ AllOk(env.set)
           /\ hit => AllOk(env.db) /\ AllOk(env.set) /\ AllOk(Tail(env.get))
           /\ ~hit => Canonical(cache, redisConfigured, ChannelKey(channel_name),
                                 Inner(env), nested)
           /\ ~hit /\ (nested.exc \/ ~Truthy(nested.ret)) => env.db[1] = "ok"
           /\ Complete("get_channel_activity", [channel_name |-> channel_name, days |-> days],
                    ChannelActivityKey(channel_name, days), env,
                    IF checked THEN [svc EXCEPT !.cache = lookup.cache,
                                                !.wrote = @ \/ lookup.wrote]
                    ELSE svc,
                    channel_activity(svc, lookup))

\* the search asked of the long-text warehouses
LongTextSearches == {SearchArgs(<<"LONG">>, <<>>, <<>>, <<>>)}

SearchMessages ==
    /\ workload \in {"search", "long_text"}
    /\ \E a \in (IF workload = "long_text" THEN LongTextSearches ELSE Searches),
          env \in Envs1 :
        \E svc \in {search_messages(cache, redisConfigured, db, a, env)} :
           /\ Dispatch(MessagesRoutes, << <<"messages">> >>) = "search_messages"
           /\ Complete("search_messages", a, SearchKey(a), env, svc, search_route(svc, a))

\* the ids and channel names asked of the message-detail route by itself: ids
\* that two channels, one channel and no channel hold; no name, the name of
\* either holder, of a channel without the id, of no channel
DetailIds == {1, 2, 3, 4, 9}
DetailChannels ==
    {<<>>, << <<"chemed">> >>, << <<"lobelia">> >>, << <<"tikvah">> >>,
     << <<"nonexistent">> >>}

GetMessage ==
    /\ workload \in {"search", "messages"}
    /\ \E message_id \in (IF workload = "messages" THEN DetailIds ELSE {1, 3, 9}),
          channel_name \in (IF workload = "messages" THEN DetailChannels
                            ELSE {<<>>, << <<"chemed">> >>}),
          dbOutcome \in Outcome :
        LET r == MessagesRequest(db, << <<"messages">>, IntToStr(message_id) >>,
                                 [channel_name |-> channel_name], dbOutcome)
        IN CompleteDirect("get_message", r.route,
                          [message_id |-> message_id, channel_name |-> channel_name],
                          r.out, r.queried, dbOutcome)

GetPopularMessages ==
    /\ workload = "search"
    /\ \E timeframe \in {"day", "week", "month", "year"}, limit \in {1, 10},
       dbOutcome \in Outcome :
        LET r == MessagesRequest(db, << <<"messages">>, <<"popular">> >>,
                                 [timeframe |-> timeframe, limit |-> limit,
                                  channel_name |-> <<>>], dbOutcome)
        IN CompleteDirect("get_popular_messages", r.route,
                          [timeframe |-> timeframe, limit |-> limit], r.out, r.queried,
                          dbOutcome)

GetTopProducts ==
    /\ workload \in {"reports", "products"}
    /\ \E limit \in (IF workload = "products" THEN ScanLimits ELSE TopLimits),
          days \in TopDays, seed \in HashSeeds, env \in Envs1 :
        \E svc \in {get_top_products(cache, redisConfigured, db, limit, days, seed, env)} :
           Complete("get_top_products", [limit |-> limit, days |-> days, seed |-> seed],
                    TopProductsKey(limit, days), env, svc, top_products_route(svc))

GetVisualContent ==
    /\ workload = "reports"
    /\ \E env \in Envs1 :
        \E svc \in {get_visual_content_stats(cache, redisConfigured, db, env)} :
           Complete("get_visual_content_stats", <<>>, VisualContentKey, env, svc,
                    visual_content_route(svc))

GetEngagement ==
    /\ workload = "reports"
    /\ \E days \in EngagementDays, env \in Envs1 :
        \E svc \in {get_engagement_metrics(cache, redisConfigured, db, days, env)} :
           Complete("get_engagement_metrics", [days |-> days], EngagementKey(days), env,
                    svc, engagement_route(svc))

\* the windows asked of the trend route by itself
TrendDays == {1, 2, 3, 10, 30, 40, 365}

GetDailyTrends ==
    /\ workload \in {"reports", "trends"}
    /\ \E metric \in {"messages", "views", "forwards", "images", "bogus"},
          days \in (IF workload = "trends" THEN TrendDays ELSE {30}),
          dbOutcome \in Outcome :
        \E out \in {get_daily_trends(db, metric, days, dbOutcome)} :
            CompleteDirect("get_daily_trends", "get_daily_trends",
                           [metric |-> metric, days |-> days], out,
                           metric \in {"messages", "views", "forwards", "images"},
                           dbOutcome)

\* GET /api/analytics/overview
GetAnalyticsOverview ==
    /\ workload = "overview"
    /\ \E days \in TrendDays, dbOutcome \in Outcome :
        \E out \in {get_analytics_overview(db, days, dbOutcome)} :
            CompleteDirect("get_analytics_overview", "get_analytics_overview",
                           [days |-> days], out, TRUE, dbOutcome)

\* GET /health; the ping is made only with a client and after the probe
\* query has been answered
HealthCheck ==
    /\ workload = "health"
    /\ \E dbOutcome \in Outcome, pingOutcome \in Outcome :
        /\ (~redisConfigured \/ dbOutcome = "error") => pingOutcome = "ok"
        /\ \E out \in {health_check(redisConfigured, dbOutcome, pingOutcome)} :
            CompleteDirect("health_check", "health_check", [ping |-> pingOutcome], out,
                           TRUE, dbOutcome)

(***************************************************************************)
(* Environment                                                             *)
(***************************************************************************)
\* time passes; Redis expires the entries whose ttl has run out
Tick ==
    /\ cache # EmptyCache
    /\ cache' = RedisAfter(cache, TickSeconds)
    /\ UNCHANGED <<db, redisConfigured, workload, resp, environ, inflight, origin>>

\* another client of the shared Redis overwrites a key with text that is not
\* JSON, under a lifetime of its own
ForeignTtl == TickSeconds

ForeignWrite ==
    \E key \in DOMAIN cache :
        /\ cache[key].payload.valid
        /\ cache' = RedisSetex(cache, key, ForeignTtl, GarbageText, "foreign")
        /\ UNCHANGED <<db, redisConfigured, workload, resp, environ, inflight, origin>>

\* Redis drops an entry before its ttl has run out (maxmemory eviction)
Evict ==
    \E key \in DOMAIN cache :
        /\ cache' = RedisDel(cache, key)
        /\ UNCHANGED <<db, redisConfigured, workload, resp, environ, inflight, origin>>

(***************************************************************************)
(* A request on its way through the app (main.py, dependencies.py)         *)
(***************************************************************************)
RECURSIVE Split(_, _)
\* str.split(sep): the pieces between the separators, empty pieces included
Split(txt, sep) ==
    IF \A i \in 1..Len(txt) : txt[i] # sep THEN <<txt>>
    ELSE With(CHOOSE i \in 1..Len(txt) : txt[i] = sep /\ \A j \in 1..(i - 1) : txt[j] # sep,
              LAMBDA i : <<SubSeq(txt, 1, i - 1)>> \o Split(SubSeq(txt, i + 1, Len(txt)), sep))

\* os.getenv(name, default)
Getenv(env, name, default) == IF env[name] = <<>> THEN default ELSE env[name][1]

\* neither variable is set
Unset == [ENVIRONMENT |-> <<>>, API_KEYS |-> <<>>]

Environs ==
    [ENVIRONMENT : {<<>>, << <<"production">> >>, << <<"development">> >>},
     API_KEYS : {<<>>, << <<>> >>, << <<"k1", ",", "k2">> >>}]

\* the X-API-Key header: absent, empty, a configured key, another key
Headers == {<<>>, << <<>> >>, << <<"k2">> >>, << <<"k3">> >>}

\* the check without `not x_api_key`
validate_api_key_lenient(env, x_api_key) ==
    IF env.ENVIRONMENT = << <<"production">> >>
    THEN With(Split(Getenv(env, "API_KEYS", <<>>), ","), LAMBDA valid_keys :
            IF x_api_key = <<>> \/ \A i \in 1..Len(valid_keys) : valid_keys[i] # x_api_key[1]
            THEN HTTPException(401)
            ELSE Return(PyBool(TRUE)))
    ELSE Return(PyBool(TRUE))

\* validate_api_key(x_api_key: Optional[str] = Header(None))
validate_api_key(env, x_api_key) ==
    IF env.ENVIRONMENT = << <<"production">> >>
    THEN With(Split(Getenv(env, "API_KEYS", <<>>), ","), LAMBDA valid_keys :
            IF \/ x_api_key = <<>>
               \/ x_api_key[1] = <<>>
               \/ \A i \in 1..Len(valid_keys) : valid_keys[i] # x_api_key[1]
            THEN HTTPException(401)
            ELSE Return(PyBool(TRUE)))
    ELSE Return(PyBool(TRUE))

Requests == 1..MaxRequests

\* no request has arrived
IdleRequest ==
    [pc |-> "idle", path |-> "none", header |-> <<>>, outcome |-> "none", status |-> 0,
     ran |-> FALSE, open |-> 0, opened |-> 0]
NoRequests == [r \in Requests |-> IdleRequest]

\* how a handler ends: it returns, raises HTTPException, lets a
\* SQLAlchemyError through or lets any other exception through
HandlerOutcomes == {"return", "http", "sqlalchemy", "other"}

\* db = SessionLocal()
get_db_enter(q) == [q EXCEPT !.open = @ + 1, !.opened = @ + 1]

\* get_db with db.close() after the yield, not in a finally block
get_db_exit_unguarded(q) ==
    IF q.outcome = "return" THEN [q EXCEPT !.open = @ - 1, !.status = 200]
    ELSE [q EXCEPT !.status = IF q.outcome = "http" THEN 404 ELSE 500]

\* try: yield db
\* except SQLAlchemyError: db.rollback(); raise HTTPException(status_code=500)
\* finally: db.close()
get_db_exit(q) ==
    [q EXCEPT !.open = @ - 1,
              !.status = CASE q.outcome = "return" -> 200
                           [] q.outcome = "http" -> IF q.path = "health" THEN 503 ELSE 404
                           [] OTHER -> 500]

\* a request comes in: for a route of one of the four routers under /api, or
\* for /health
Arrive(r) ==
    /\ workload = "pipeline"
    /\ inflight[r].pc = "idle"
    /\ \E path \in {"api", "health"}, header \in Headers :
          /\ path = "health" => header = <<>>
          /\ inflight' = [inflight EXCEPT ![r] = [IdleRequest EXCEPT !.pc = "dependencies",
                                                   !.path = path, !.header = header]]
    /\ UNCHANGED <<db, redisConfigured, workload, cache, resp, environ, origin>>

\* dependencies=[Depends(validate_api_key)] of the router comes first
ValidateApiKey(r) ==
    /\ inflight[r].pc = "dependencies"
    /\ inflight[r].path = "api"
    /\ \E out \in {validate_api_key(environ, inflight[r].header)} :
          inflight' = [inflight EXCEPT ![r] =
                          IF out.raised THEN [@ EXCEPT !.pc = "done", !.status = out.status]
                          ELSE [@ EXCEPT !.pc = "get_db"]]
    /\ UNCHANGED <<db, redisConfigured, workload, cache, resp, environ, origin>>

\* db: Session = Depends(get_db), up to the yield
GetDb(r) ==
    /\ \/ inflight[r].pc = "get_db"
       \/ inflight[r].pc = "dependencies" /\ inflight[r].path = "health"
    /\ inflight' = [inflight EXCEPT ![r] = [get_db_enter(@) EXCEPT !.pc = "handler"]]
    /\ UNCHANGED <<db, redisConfigured, workload, cache, resp, environ, origin>>

\* the path operation function runs
Handle(r) ==
    /\ inflight[r].pc = "handler"
    /\ \E outcome \in HandlerOutcomes :
          inflight' = [inflight EXCEPT ![r] = [@ EXCEPT !.pc = "teardown", !.ran = TRUE,
                                                        !.outcome = outcome]]
    /\ UNCHANGED <<db, redisConfigured, workload, cache, resp, environ, origin>>

\* get_db after the yield
CloseDb(r) ==
    /\ inflight[r].pc = "teardown"
    /\ inflight' = [inflight EXCEPT ![r] = [get_db_exit(@) EXCEPT !.pc = "done"]]
    /\ UNCHANGED <<db, redisConfigured, workload, cache, resp, environ, origin>>

\* the response has gone out
Respond(r) ==
    /\ inflight[r].pc = "done"
    /\ inflight' = [inflight EXCEPT ![r] = IdleRequest]
    /\ UNCHANGED <<db, redisConfigured, workload, cache, resp, environ, origin>>

(***************************************************************************)
(* get_all_channels, await by await, with loads going on upstream          *)
(***************************************************************************)
\* the loads the warehouse has taken: each adds a post to its first channel
LoadsTaken(d) == d.channels[1].total_posts - SmallWarehouse.channels[1].total_posts

\* a call that has not begun
IdleCall ==
    [pc |-> "idle", hit |-> FALSE, held |-> PyNone, version |-> 0, since |-> 0,
     replaced |-> <<>>]
NoCalls == [r \in Requests |-> IdleCall]

\* the upstream ETL loads new posts
Load ==
    /\ workload = "interleaved"
    /\ LoadsTaken(db) < MaxLoads
    /\ db' = [db EXCEPT !.channels[1].total_posts = @ + 1]
    /\ UNCHANGED <<redisConfigured, workload, cache, resp, environ, inflight, origin>>

\* time passes for the keyspace and for what the calls hold
Elapse ==
    /\ workload = "interleaved"
    /\ \A r \in Requests : inflight[r].since <= TickSeconds
    /\ \A k \in DOMAIN origin : origin[k].since <= cache_ttl
    /\ cache' = RedisAfter(cache, TickSeconds)
    /\ origin' = [k \in DOMAIN cache' |-> [origin[k] EXCEPT !.since = @ + TickSeconds]]
    /\ inflight' = [r \in Requests |->
                        IF inflight[r].pc \in {"set_cached", "returned"}
                        THEN [inflight[r] EXCEPT !.since = @ + TickSeconds]
                        ELSE inflight[r]]
    /\ UNCHANGED <<db, redisConfigured, workload, resp, environ>>

\* a request for the channel list comes in
CallGetAllChannels(r) ==
    /\ workload = "interleaved"
    /\ inflight[r].pc = "idle"
    /\ inflight' = [inflight EXCEPT ![r] = [IdleCall EXCEPT !.pc = "get_cached"]]
    /\ UNCHANGED <<db, redisConfigured, workload, cache, resp, environ, origin>>

\* cached = await self.get_cached(cache_key); if cached: return cached
AwaitGetCached(r) ==
    /\ inflight[r].pc = "get_cached"
    /\ \E cached \in {get_cached(cache, redisConfigured, AllChannelsKey, "ok")} :
          inflight' = [inflight EXCEPT ![r] =
              IF Truthy(cached)
              THEN [@ EXCEPT !.pc = "returned", !.hit = TRUE, !.held = cached,
                             !.version = origin[AllChannelsKey].version,
                             !.since = origin[AllChannelsKey].since]
              ELSE [@ EXCEPT !.pc = "query"]]
    /\ UNCHANGED <<db, redisConfigured, workload, cache, resp, environ, origin>>

\* the query and the loop that builds the result
RunQuery(r) ==
    /\ inflight[r].pc = "query"
    /\ inflight' = [inflight EXCEPT ![r] =
                        [@ EXCEPT !.pc = "set_cached", !.held = AllChannelsResult(db),
                                  !.version = LoadsTaken(db), !.since = 0]]
    /\ UNCHANGED <<db, redisConfigured, workload, cache, resp, environ, origin>>

\* await self.set_cached(cache_key, result); return result
AwaitSetCached(r) ==
    /\ inflight[r].pc = "set_cached"
    /\ cache' = set_cached(cache, redisConfigured, AllChannelsKey, inflight[r].held,
                            "ok").cache
    /\ origin' = [k \in DOMAIN cache' |->
                    IF k = AllChannelsKey
                    THEN [version |-> inflight[r].version, since |-> inflight[r].since]
                    ELSE origin[k]]
    /\ inflight' = [inflight EXCEPT ![r] =
                        [@ EXCEPT !.pc = "returned",
                                  !.replaced = IF Live(cache, AllChannelsKey)
                                               THEN <<origin[AllChannelsKey].version>>
                                               ELSE <<>>]]
    /\ UNCHANGED <<db, redisConfigured, workload, resp, environ>>

\* the response has gone out
Finish(r) ==
    /\ workload = "interleaved"
    /\ inflight[r].pc = "returned"
    /\ inflight' = [inflight EXCEPT ![r] = IdleCall]
    /\ UNCHANGED <<db, redisConfigured, workload, cache, resp, environ, origin>>

(***************************************************************************)
(* The specification                                                       *)
(***************************************************************************)
Init ==
    /\ db \in Warehouses
    /\ redisConfigured \in BOOLEAN
    /\ workload \in {"channels", "search", "reports"}
    /\ cache = EmptyCache
    /\ resp = NoResp
    /\ environ = Unset
    /\ inflight = NoRequests
    /\ origin = NoOrigin

Next ==
    \/ ListChannels
    \/ GetChannel
    \/ GetChannelActivity
    \/ SearchMessages
    \/ GetMessage
    \/ GetPopularMessages
    \/ GetTopProducts
    \/ GetVisualContent
    \/ GetEngagement
    \/ GetDailyTrends
    \/ Tick
    \/ ForeignWrite
    \/ Evict

Spec == Init /\ [][Next]_vars

\* one router at a time
Environment == Tick \/ ForeignWrite \/ Evict

InitChannels == Init /\ workload = "channels"
NextChannels == ListChannels \/ GetChannel \/ GetChannelActivity \/ Environment
SpecChannels == InitChannels /\ [][NextChannels]_vars

\* the comparison route by itself
InitCompare ==
    /\ db \in Warehouses
    /\ redisConfigured \in BOOLEAN
    /\ workload = "compare"
    /\ cache = EmptyCache
    /\ resp = NoResp
    /\ environ = Unset
    /\ inflight = NoRequests
    /\ origin = NoOrigin
NextCompare == CompareChannels \/ Environment
SpecCompare == InitCompare /\ [][NextCompare]_vars

\* the activity route by itself
InitActivity ==
    /\ db \in Warehouses
    /\ redisConfigured \in BOOLEAN
    /\ workload = "activity"
    /\ cache = EmptyCache
    /\ resp = NoResp
    /\ environ = Unset
    /\ inflight = NoRequests
    /\ origin = NoOrigin
NextActivity == GetChannelActivity \/ Environment
SpecActivity == InitActivity /\ [][NextActivity]_vars

\* the search route over texts of SearchTextLimit characters, one fewer, one
\* more, two more, and a short text
InitLongText ==
    /\ db \in {LongTextWarehouse(n) : n \in {1, SearchTextLimit - 1, SearchTextLimit,
                                             SearchTextLimit + 1, SearchTextLimit + 2}}
    /\ redisConfigured \in BOOLEAN
    /\ workload = "long_text"
    /\ cache = EmptyCache
    /\ resp = NoResp
    /\ environ = Unset
    /\ inflight = NoRequests
    /\ origin = NoOrigin
NextLongText == SearchMessages \/ Environment
SpecLongText == InitLongText /\ [][NextLongText]_vars

InitSearch == Init /\ workload = "search"
NextSearch == SearchMessages \/ GetMessage \/ GetPopularMessages \/ Environment
SpecSearch == InitSearch /\ [][NextSearch]_vars

\* the product scan over drawn row sets
InitProducts ==
    /\ db \in ScanInputs
    /\ redisConfigured \in BOOLEAN
    /\ workload = "products"
    /\ cache = EmptyCache
    /\ resp = NoResp
    /\ environ = Unset
    /\ inflight = NoRequests
    /\ origin = NoOrigin
NextProducts == GetTopProducts \/ Tick
SpecProducts == InitProducts /\ [][NextProducts]_vars

\* requests through the dependencies of the app, whatever their route
InitPipeline ==
    /\ db \in Warehouses
    /\ redisConfigured = FALSE
    /\ workload = "pipeline"
    /\ cache = EmptyCache
    /\ resp = NoResp
    /\ environ \in Environs
    /\ inflight = NoRequests
    /\ origin = NoOrigin
NextPipeline ==
    \E r \in Requests :
        Arrive(r) \/ ValidateApiKey(r) \/ GetDb(r) \/ Handle(r) \/ CloseDb(r) \/ Respond(r)
SpecPipeline == InitPipeline /\ [][NextPipeline]_vars

\* the analytics overview by itself, over warehouses in nullable form
InitOverview ==
    /\ db \in NullableWarehouses
    /\ redisConfigured \in BOOLEAN
    /\ workload = "overview"
    /\ cache = EmptyCache
    /\ resp = NoResp
    /\ environ = Unset
    /\ inflight = NoRequests
    /\ origin = NoOrigin
NextOverview == GetAnalyticsOverview
SpecOverview == InitOverview /\ [][NextOverview]_vars

\* the health probe by itself, whatever the warehouse holds
InitHealth ==
    /\ db \in Warehouses \cup {TrendWarehouse} \cup ScanInputs
    /\ redisConfigured \in BOOLEAN
    /\ workload = "health"
    /\ cache = EmptyCache
    /\ resp = NoResp
    /\ environ = Unset
    /\ inflight = NoRequests
    /\ origin = NoOrigin
NextHealth == HealthCheck
SpecHealth == InitHealth /\ [][NextHealth]_vars

\* concurrent requests for the channel list, with a cache
InitInterleaved ==
    /\ db \in Warehouses
    /\ redisConfigured = TRUE
    /\ workload = "interleaved"
    /\ cache = EmptyCache
    /\ resp = NoResp
    /\ environ = Unset
    /\ inflight = NoCalls
    /\ origin = NoOrigin
NextInterleaved ==
    \/ Load
    \/ Elapse
    \/ \E r \in Requests :
          \/ CallGetAllChannels(r)
          \/ AwaitGetCached(r)
          \/ RunQuery(r)
          \/ AwaitSetCached(r)
          \/ Finish(r)
SpecInterleaved == InitInterleaved /\ [][NextInterleaved]_vars

\* the message-detail route by itself
InitMessages ==
    /\ db \in Warehouses \cup {TrendWarehouse}
    /\ redisConfigured \in BOOLEAN
    /\ workload = "messages"
    /\ cache = EmptyCache
    /\ resp = NoResp
    /\ environ = Unset
    /\ inflight = NoRequests
    /\ origin = NoOrigin
NextMessages == GetMessage
SpecMessages == InitMessages /\ [][NextMessages]_vars

\* the daily-trend route by itself
InitTrends ==
    /\ db \in Warehouses \cup {TrendWarehouse}
    /\ redisConfigured \in BOOLEAN
    /\ workload = "trends"
    /\ cache = EmptyCache
    /\ resp = NoResp
    /\ environ = Unset
    /\ inflight = NoRequests
    /\ origin = NoOrigin
NextTrends == GetDailyTrends
SpecTrends == InitTrends /\ [][NextTrends]_vars

InitReports == Init /\ workload = "reports"
NextReports ==
    GetTopProducts \/ GetVisualContent \/ GetEngagement \/ GetDailyTrends \/ Environment
SpecReports == InitReports /\ [][NextReports]_vars

(***************************************************************************)
(* Properties                                                              *)
(***************************************************************************)
\* the request recorded in resp went through a DataService operation
Served == resp.getCase # "none"

OkEnv == [get |-> <<"ok", "ok">>, set |-> <<"ok", "ok">>, db |-> <<"ok", "ok">>]

\* what the operation behind the recorded request returns when the service is
\* built without a cache client
Uncached ==
    CASE resp.endpoint = "list_channels" ->
            get_all_channels(EmptyCache, FALSE, db, OkEnv).ret
      [] resp.endpoint = "get_channel" ->
            get_channel_by_name(EmptyCache, FALSE, db, resp.args.channel_name, OkEnv).ret
      [] resp.endpoint = "get_channel_activity" ->
            get_channel_activity(EmptyCache, FALSE, db, resp.args.channel_name,
                                 resp.args.days, OkEnv).ret
      [] resp.endpoint = "search_messages" ->
            search_messages(EmptyCache, FALSE, db, resp.args, OkEnv).ret
      [] resp.endpoint = "get_top_products" ->
            get_top_products(EmptyCache, FALSE, db, resp.args.limit, resp.args.days,
                             resp.args.seed, OkEnv).ret
      [] resp.endpoint = "get_visual_content_stats" ->
            get_visual_content_stats(EmptyCache, FALSE, db, OkEnv).ret
      [] resp.endpoint = "get_engagement_metrics" ->
            get_engagement_metrics(EmptyCache, FALSE, db, resp.args.days, OkEnv).ret
      [] OTHER -> PyNone

RECURSIVE DeepEqual(_, _)
\* the same structure with the same contents: a list is a list of deep-equal
\* members, a record is a record with the same fields, a scalar is the same scalar
DeepEqual(a, b) ==
    /\ a.kind = b.kind
    /\ a.cls = b.cls
    /\ IF a.kind = "list"
       THEN /\ Len(a.body) = Len(b.body)
            /\ \A i \in 1..Len(a.body) : DeepEqual(a.body[i], b.body[i])
       ELSE a.body = b.body

\* C1: get_cached never raises; it returns None when no cache client is
\* configured, when the backend raises on GET, when the key holds no unexpired
\* entry and when the stored payload cannot be deserialized; it returns a value
\* only when the backend holds an unexpired entry for the key, and that value
\* is the entry's payload deserialized.
C1_GetCachedFailOpen ==
    Served =>
        /\ resp.got.kind # "exception"
        /\ resp.getCase \in {"unconfigured", "error", "nil", "garbage"} => resp.got = PyNone
        /\ resp.getCase = "value" => resp.got = resp.stored
        /\ resp.got # PyNone => resp.getCase = "value"

\* a GET that found text which is no JSON document, answered with None
C1_Witness ==
    /\ resp.getCase = "garbage"
    /\ resp.got = PyNone
    /\ ~resp.exc

\* C2: every entry set_cached has written is held with a ttl of exactly 300
\* seconds; when no set_cached call of a request has stored its value (no
\* client configured, or the write failed) the request leaves the keyspace as
\* it found it, and a failing write raises nothing.
C2_SetCachedFailOpen ==
    /\ \A key \in DOMAIN cache : cache[key].by = "set_cached" => cache[key].ttl = 300
    /\ Served =>
        /\ ~resp.wrote => ~resp.cacheChanged
        /\ resp.setCase \in {"unconfigured", "error"} /\ resp.dbOk => ~resp.exc
        /\ resp.setCase = "ok" => resp.wrote /\ ~resp.exc

\* a write that failed while another key was held: nothing changed, nothing raised
C2_Witness ==
    /\ resp.setCase = "error"
    /\ ~resp.cacheChanged
    /\ ~resp.exc
    /\ cache # EmptyCache

\* C3: whenever the operation's own GET did not hand back a cached value (no
\* client, GET failed, no entry, undecodable entry), whatever its SET calls and
\* its nested calls then did, and the relational queries succeeded, the
\* operation raises nothing and returns what it returns without a cache.
C3_DegradesToUncached ==
    (Served /\ resp.getCase # "value" /\ resp.dbOk) =>
        /\ ~resp.exc
        /\ resp.ret = Uncached

\* the activity operation with its GET and its SET both failing
C3_Witness ==
    /\ resp.endpoint = "get_channel_activity"
    /\ resp.getCase = "error"
    /\ resp.setCase = "error"
    /\ ~resp.exc
    /\ resp.ret.kind = "list" /\ resp.ret.body # <<>>
    /\ resp.ret = Uncached

\* C4: while the entry a request wrote under its key is held, reading the key
\* back gives a value deep-equal to the value the request passed to set_cached.
C4_RoundTrip ==
    (/\ Served
     /\ resp.setCase = "ok"
     /\ Live(cache, resp.key)
     /\ cache[resp.key].by = "set_cached")
        => DeepEqual(get_cached(cache, redisConfigured, resp.key, "ok"), resp.ret)

\* C5: two successive get_channel_by_name calls with the same name, neither of
\* which raised, return the same result.
C5_LookupIdempotent == resp.repeat => resp.sameAsPrev

\* C6: a request whose GET finds an unexpired entry that a service request has
\* written under its key is answered with the entry's value and runs no
\* relational query.
C6_ConvergesOnCached ==
    (Served /\ resp.getCase = "value") =>
        /\ resp.hit
        /\ ~resp.queried
        /\ resp.ret = resp.stored

\* C7: the lookup matches the name exactly and gives one channel at most: a
\* result that is not None is one record carrying the requested name; when no
\* channel has exactly that name and the query succeeds the service returns
\* None and the endpoint answers 404.
C7_ExactMatchOrNotFound ==
    resp.endpoint = "get_channel" =>
        /\ (~resp.exc /\ resp.ret # PyNone) =>
              /\ resp.ret.kind # "list"
              /\ resp.ret.cls = "ChannelResponse"
              /\ resp.ret.body[1].channel_name = resp.args.channel_name
        /\ (/\ \A i \in 1..Len(db.channels) :
                    db.channels[i].channel_name # resp.args.channel_name
            /\ resp.dbOk) =>
              /\ resp.ret = PyNone
              /\ ~resp.exc
              /\ resp.status = 404

\* a name that differs from a channel's only in case: answered 404
C7_Witness ==
    /\ resp.endpoint = "get_channel"
    /\ resp.args.channel_name = <<"CHEMED">>
    /\ resp.queried
    /\ resp.ret = PyNone
    /\ resp.status = 404

\* C8: a daily-trend request whose metric is none of messages, views, forwards
\* and images is answered 400.
C8_InvalidMetricIs400 ==
    (/\ resp.endpoint = "get_daily_trends"
     /\ resp.args.metric \notin {"messages", "views", "forwards", "images"})
        => resp.status = 400

\* C9: a request to the popular-messages path with a timeframe other than day,
\* week and month is answered 400; with one of the three and the query
\* succeeding it is answered 200 with the window of 1, 7 or 30 days and at most
\* limit messages in descending order of views.
C9_PopularMessages ==
    resp.endpoint = "get_popular_messages" =>
        /\ resp.args.timeframe \notin {"day", "week", "month"} => resp.status = 400
        /\ (resp.args.timeframe \in {"day", "week", "month"} /\ resp.dbOk) =>
              /\ resp.status = 200
              /\ resp.body.kind = "dict"
              /\ resp.body.body[1].days = (CASE resp.args.timeframe = "day" -> 1
                                             [] resp.args.timeframe = "week" -> 7
                                             [] OTHER -> 30)
              /\ Len(resp.body.body[1].messages) <= resp.args.limit
              /\ \A i \in 1..(Len(resp.body.body[1].messages) - 1) :
                    resp.body.body[1].messages[i].view_count
                        >= resp.body.body[1].messages[i + 1].view_count

\* C10: a search whose filters select no message, the query succeeding, is
\* answered 200 with an empty message list and total_results 0; every 200
\* search response carries the query and has total_results equal to the number
\* of its messages.
C10_SearchNoMatch ==
    resp.endpoint = "search_messages" =>
        /\ resp.status = 200 =>
              /\ resp.body.cls = "SearchResponse"
              /\ resp.body.body[1].query = resp.args.query
              /\ resp.body.body[1].total_results = Len(resp.body.body[1].messages)
        /\ (SearchRows(db, resp.args) = <<>> /\ resp.dbOk) =>
              /\ resp.status = 200
              /\ resp.body.body[1].messages = <<>>
              /\ resp.body.body[1].total_results = 0

(***************************************************************************)
(* Top products                                                            *)
(***************************************************************************)
\* the recorded request ran the product scan and returned its products
ScanReturned == resp.endpoint = "get_top_products" /\ resp.queried /\ ~resp.exc

\* the place of a product name in the keyword map
MapIndex(name) == CHOOSE p \in 1..Len(product_keywords) : product_keywords[p].name = name

\* the keywords of the named product that the text of scanned row j contains
KeywordsIn(name, j) ==
    LET keywords == product_keywords[MapIndex(name)].keywords
        text == Lower(ScannedRows(db, resp.args.days)[j].message_text)
    IN {k \in 1..Len(keywords) : Contains(text, keywords[k])}

\* the scanned rows whose text contains a keyword of the named product
MentioningRows(name) ==
    {j \in 1..Len(ScannedRows(db, resp.args.days)) : KeywordsIn(name, j) # {}}

\* the channels of those rows
MentioningChannels(name) ==
    {ChannelNameOf(db, ScannedRows(db, resp.args.days)[j])[1] : j \in MentioningRows(name)}

\* the views of those rows, summed
MentioningViews(name) ==
    SumSeq([j \in 1..Len(ScannedRows(db, resp.args.days)) |->
              IF j \in MentioningRows(name)
              THEN ScannedRows(db, resp.args.days)[j].view_count ELSE 0])

\* the i-th product of the recorded result
Returned_product(i) == resp.ret.body[i].body[1]

\* C11: every product the scan returns has a mention_count equal to the number
\* of scanned messages whose lower-cased text contains at least one of the
\* product's keywords, however many of them it contains.
C11_CountedOncePerProduct ==
    ScanReturned =>
        \A i \in 1..Len(resp.ret.body) :
            Returned_product(i).mention_count
                = Cardinality(MentioningRows(Returned_product(i).product_name))

\* a returned product of which one scanned message contains two keywords
C11_Witness ==
    /\ ScanReturned
    /\ \E i \in 1..Len(resp.ret.body) :
          /\ Returned_product(i).mention_count = 1
          /\ \E j \in MentioningRows(Returned_product(i).product_name) :
                Cardinality(KeywordsIn(Returned_product(i).product_name, j)) = 2

\* C12: for every product the scan returns, channels holds no name twice, holds
\* at most 5 names, holds only channels with a scanned message that mentions
\* the product and holds all of them when they are at most 5; avg_views is the
\* mean of the view counts of the messages that mention the product.
C12_PerProductAggregates ==
    ScanReturned =>
        \A i \in 1..Len(resp.ret.body) :
            LET p == Returned_product(i)
                among == MentioningChannels(p.product_name)
            IN /\ Len(p.channels) <= 5
               /\ \A a, b \in 1..Len(p.channels) : a # b => p.channels[a] # p.channels[b]
               /\ \A a \in 1..Len(p.channels) : p.channels[a] \in among
               /\ Cardinality(among) <= 5
                     => {p.channels[a] : a \in 1..Len(p.channels)} = among
               /\ p.avg_views = Frac(MentioningViews(p.product_name),
                                     Cardinality(MentioningRows(p.product_name)))

\* three paracetamol messages with views 100, 200, 300 from channels A, B, A
\* and limit 1: Paracetamol, 3 mentions, channels A and B, 200 views on average
C12_Witness ==
    /\ ScanReturned
    /\ resp.args.limit = 1
    /\ Len(db.messages) = 3
    /\ Len(resp.ret.body) = 1
    /\ Returned_product(1).product_name = <<"Paracetamol">>
    /\ Returned_product(1).mention_count = 3
    /\ {Returned_product(1).channels[a] : a \in 1..Len(Returned_product(1).channels)}
          = {<<"A">>, <<"B">>}
    /\ Returned_product(1).avg_views = [num |-> 200, den |-> 1]

\* C13: the scan returns at most limit products, no product before one with a
\* higher mention_count, and of two products with the same mention_count the
\* one that comes first in the keyword map first.
C13_TopByCountThenMapOrder ==
    ScanReturned =>
        /\ Len(resp.ret.body) <= resp.args.limit
        /\ \A i, j \in 1..Len(resp.ret.body) :
              i < j =>
                /\ Returned_product(i).mention_count >= Returned_product(j).mention_count
                /\ Returned_product(i).mention_count = Returned_product(j).mention_count
                      => MapIndex(Returned_product(i).product_name)
                            < MapIndex(Returned_product(j).product_name)

\* the products of a result, each with its count and the set of its channels
CountsAndChannelSets(rows) ==
    [i \in 1..Len(rows) |->
        [product_name |-> rows[i].body[1].product_name,
         mention_count |-> rows[i].body[1].mention_count,
         channels |-> {rows[i].body[1].channels[a] :
                          a \in 1..Len(rows[i].body[1].channels)}]]

\* C14: another run of the scan over the same rows, in whatever process, gives
\* the same products with the same mention counts and the same channel sets.
C14_ScanDeterministic ==
    ScanReturned =>
        \A seed \in HashSeeds :
            CountsAndChannelSets(TopProductRows(db, resp.args.limit, resp.args.days, seed))
                = CountsAndChannelSets(resp.ret.body)

(***************************************************************************)
(* Channel comparison                                                      *)
(***************************************************************************)
\* the warehouse has a channel of exactly this name
ChannelExists(name) == \E i \in 1..Len(db.channels) : db.channels[i].channel_name = name

\* its row
ChannelRowOf(name) ==
    db.channels[CHOOSE i \in 1..Len(db.channels) : db.channels[i].channel_name = name]

\* (a - b) / max(b, 1) * 100 as a fraction in lowest terms
PercentOf(a, b) == Frac((a - b) * 100, IF b > 1 THEN b ELSE 1)

\* C15: a comparison of two channels that both exist, its queries succeeding,
\* is answered 200, and each percentage difference in the answer is
\* (channel1 - channel2) / max(channel2, 1) * 100, also when channel2's
\* total_posts or avg_views is zero.
C15_ComparisonSucceeds ==
    (/\ resp.endpoint = "compare_channel"
     /\ ChannelExists(resp.args.channel_name)
     /\ ChannelExists(resp.args.compare_with)
     /\ resp.dbOk) =>
        /\ resp.status = 200
        /\ resp.body.body[1].metrics.total_posts.percentage_difference
              = PercentOf(ChannelRowOf(resp.args.channel_name).total_posts,
                          ChannelRowOf(resp.args.compare_with).total_posts)
        /\ resp.body.body[1].metrics.avg_views.percentage_difference
              = PercentOf(ChannelRowOf(resp.args.channel_name).avg_views,
                          ChannelRowOf(resp.args.compare_with).avg_views)

\* C16: a comparison in which either named channel does not exist, its queries
\* succeeding, is answered 404 without a body; a comparison answered 200 names
\* two channels that exist.
C16_ComparisonNotFound ==
    resp.endpoint = "compare_channel" =>
        /\ (/\ resp.dbOk
            /\ \/ ~ChannelExists(resp.args.channel_name)
               \/ ~ChannelExists(resp.args.compare_with)) =>
              /\ resp.status = 404
              /\ resp.body = PyNone
        /\ resp.status = 200 =>
              /\ ChannelExists(resp.args.channel_name)
              /\ ChannelExists(resp.args.compare_with)

\* the first channel exists and came out of the cache, the second does not exist
C16_Witness ==
    /\ resp.endpoint = "compare_channel"
    /\ ChannelExists(resp.args.channel_name)
    /\ ~ChannelExists(resp.args.compare_with)
    /\ resp.hit
    /\ resp.dbOk
    /\ resp.status = 404

(***************************************************************************)
(* Channel list, channel activity                                          *)
(***************************************************************************)
\* the channel row satisfies the filters of the recorded list request
PassesFilters(row) ==
    /\ resp.args.channel_type # <<>> => row.channel_type = resp.args.channel_type[1]
    /\ resp.args.min_posts # <<>> => row.total_posts >= resp.args.min_posts[1]
    /\ resp.args.active_only => row.activity_status = "Active"

\* C17: a channel list request, the query succeeding, is answered 200 with
\* the records of exactly the channels that satisfy every filter it supplies,
\* each once, none before one with more total_posts; this whether the channels
\* came from the query or from the cache.
C17_ListFiltersConjunction ==
    (resp.endpoint = "list_channels" /\ resp.dbOk) =>
        /\ resp.status = 200
        /\ resp.body.kind = "list"
        /\ \A i \in 1..Len(resp.body.body) :
              /\ resp.body.body[i].kind = "model"
              /\ \E k \in 1..Len(db.channels) :
                    /\ PassesFilters(db.channels[k])
                    /\ resp.body.body[i] = ChannelResponse(db.channels[k])
              /\ \A j \in 1..Len(resp.body.body) :
                    i < j => /\ resp.body.body[i] # resp.body.body[j]
                             /\ resp.body.body[i].body[1].total_posts
                                    >= resp.body.body[j].body[1].total_posts
        /\ \A k \in 1..Len(db.channels) :
              PassesFilters(db.channels[k]) =>
                \E i \in 1..Len(resp.body.body) :
                    resp.body.body[i] = ChannelResponse(db.channels[k])

StoredMessage(returned) ==
    CHOOSE k \in 1..Len(db.messages) :
        /\ db.messages[k].message_id = returned.message_id
        /\ ChannelNameOf(db, db.messages[k]) = <<returned.channel_name>>

\* the i-th message of the recorded search response
Returned_message(i) == resp.body.body[1].messages[i].body[1]

\* C19: every message of a 200 search response has a text that contains the
\* query, case ignored, and satisfies each filter the request supplies; the
\* messages are at most limit and none comes before one with more views.
C19_SearchMatchesOnly ==
    (resp.endpoint = "search_messages" /\ resp.status = 200) =>
        /\ Len(resp.body.body[1].messages) <= resp.args.limit
        /\ resp.args.limit <= 100
        /\ \A i \in 1..Len(resp.body.body[1].messages) :
              LET m == db.messages[StoredMessage(Returned_message(i))] IN
              /\ Contains(Lower(m.message_text), Lower(resp.args.query))
              /\ resp.args.channel_name # <<>>
                    => ChannelNameOf(db, m) = resp.args.channel_name
              /\ resp.args.start_date # <<>> => m.full_date >= resp.args.start_date[1]
              /\ resp.args.end_date # <<>> => m.full_date <= resp.args.end_date[1]
              /\ resp.args.has_images # <<>> => m.has_image_flag = resp.args.has_images[1]
              /\ resp.args.min_views # <<>> => m.view_count >= resp.args.min_views[1]
              /\ \A j \in 1..Len(resp.body.body[1].messages) :
                    i < j => Returned_message(i).view_count >= Returned_message(j).view_count

\* C20: every message of a 200 search response carries the stored text
\* unchanged when that has at most 500 characters, and otherwise its first 500
\* characters followed by the marker '...'.
C20_SearchTextTruncated ==
    (resp.endpoint = "search_messages" /\ resp.status = 200) =>
        \A i \in 1..Len(resp.body.body[1].messages) :
            LET stored == db.messages[StoredMessage(Returned_message(i))].message_text IN
            Returned_message(i).message_text
                = IF Len(stored) > 500 THEN SubSeq(stored, 1, 500) \o <<"...">> ELSE stored

\* a stored text of 501 characters returned as 500 characters and the marker
C20_Witness ==
    /\ resp.endpoint = "search_messages"
    /\ resp.status = 200
    /\ Len(resp.body.body[1].messages) = 1
    /\ Len(db.messages[1].message_text) = 501
    /\ Len(Returned_message(1).message_text) = 501
    /\ Returned_message(1).message_text[501] = "..."
    /\ Returned_message(1).message_text[500] = db.messages[1].message_text[500]

\* the records the trend of the recorded request is about
TrendFacts == IF resp.args.metric = "images" THEN db.detections ELSE db.messages

\* the calendar dates of [today - days, today] with at least one such record
TrendDates ==
    {TrendFacts[i].full_date : i \in {j \in 1..Len(TrendFacts) :
        /\ TrendFacts[j].full_date >= Today - resp.args.days
        /\ TrendFacts[j].full_date <= Today}}

OpenSessions == SumSeq(AsTuple([r \in Requests |-> inflight[r].open]))

\* C23: a request checks out one session, never more, before its handler
\* runs; the session is closed once the request has ended, however the
\* handler ended; with no request in flight no session is open.
C23_SessionReleased ==
    /\ \A r \in Requests :
          /\ inflight[r].opened <= 1
          /\ inflight[r].pc \in {"handler", "teardown"}
                => inflight[r].open = 1 /\ inflight[r].opened = 1
          /\ inflight[r].pc = "done" /\ inflight[r].ran => inflight[r].opened = 1
          /\ inflight[r].pc \in {"idle", "done"} => inflight[r].open = 0
    /\ (\A r \in Requests : inflight[r].pc \in {"idle", "done"}) => OpenSessions = 0

\* two requests have ended, one whose handler raised an exception that is no
\* HTTPException and one whose handler raised an HTTPException
C23_Witness ==
    \E r1, r2 \in Requests :
        /\ inflight[r1].pc = "done" /\ inflight[r1].outcome = "other"
        /\ inflight[r2].pc = "done" /\ inflight[r2].outcome = "http"
        /\ OpenSessions = 0

\* ENVIRONMENT says production
Production == environ.ENVIRONMENT = << <<"production">> >>

\* the configured keys: none when API_KEYS is unset or empty
AllowList ==
    IF environ.API_KEYS = <<>> \/ environ.API_KEYS = << <<>> >> THEN {}
    ELSE {piece \in {Split(environ.API_KEYS[1], ",")[i] :
                        i \in 1..Len(Split(environ.API_KEYS[1], ","))} : piece # <<>>}

\* the header is missing, empty or no configured key
BadKey(header) == header = <<>> \/ header[1] = <<>> \/ header[1] \notin AllowList

NoneNull(block) == \A f \in DOMAIN block : block[f] # <<>>

\* C25: no number of a 200 analytics overview is null: none of its three
\* statistics blocks, and no message_count or total_views of its top-channels
\* list.
C25_OverviewNeverNull ==
    (resp.endpoint = "get_analytics_overview" /\ resp.status = 200) =>
        \E body \in {resp.body.body[1]} :
            /\ NoneNull(body.message_statistics)
            /\ NoneNull(body.channel_statistics)
            /\ NoneNull(body.visual_content)
            /\ \A i \in 1..Len(body.top_channels) :
                  /\ body.top_channels[i].message_count # <<>>
                  /\ body.top_channels[i].total_views # <<>>

\* C26: a health check during which the warehouse answered the probe query
\* is answered 200 with status healthy and database connected, whatever the
\* cache does; a 503 means that the probe query failed.
C26_HealthFollowsDatabase ==
    resp.endpoint = "health_check" =>
        /\ resp.dbOk => /\ resp.status = 200
                        /\ resp.body.body[1].status = "healthy"
                        /\ resp.body.body[1].database = "connected"
        /\ resp.status = 503 => ~resp.dbOk

\* C27: what a request gets from the cache was read from the warehouse at most
\* cache_ttl seconds before, and no write to the cache replaces a live entry
\* that is from a later read of the warehouse than the one written.
C27_BoundedStaleness ==
    \A r \in Requests :
        /\ (inflight[r].pc = "returned" /\ inflight[r].hit)
              => inflight[r].since <= cache_ttl
        /\ (inflight[r].pc = "returned" /\ inflight[r].replaced # <<>>)
              => inflight[r].replaced[1] <= inflight[r].version

\* C28: no other search has the cache key of the recorded search, and a search
\* answered from the cache gets what its own query gives, as the cache holds
\* it.
C28_KeysInjective ==
    resp.endpoint = "search_messages" =>
        /\ \A other \in Searches : other # resp.args => SearchKey(other) # resp.key
        /\ resp.hit => resp.ret = Loads(Dumps(Uncached))

\* C29: a GET of the path /messages/popular is handled by the popular-messages
\* operation, not by the message-detail route, and is not turned down by the
\* validation of a message_id.
C29_PopularReachable ==
    resp.endpoint = "get_popular_messages" =>
        /\ resp.route = "get_popular_messages"
        /\ resp.status # 422

\* the stored messages with the id of the recorded request, and those of them
\* in the channel it names
IdHolders ==
    {i \in 1..Len(db.messages) : /\ db.messages[i].message_id = resp.args.message_id
                                 /\ ChannelNameOf(db, db.messages[i]) # <<>>}
InNamedChannel ==
    {i \in IdHolders : ChannelNameOf(db, db.messages[i]) = resp.args.channel_name}

====
